---- MODULE Spec2Model ----
(***************************************************************************)
(* Model of gogolfing/timequeue: the pause-handshake TimeQueue             *)
(* (src/unnamed/part_006, lines 1-275) over the indexed messageHeap        *)
(* (src/unnamed/part_008), and the lock-based TimeQueue (src/timequeue.go) *)
(* over its messageHeap (src/unnamed/part_009).                            *)
(*                                                                         *)
(* Go slices are 0-based; the sequence messageHeap is 1-based, so the      *)
(* Message at Go index i is messageHeap[i + 1].  Message.index keeps the   *)
(* Go value (0-based, indexNotInHeap = -1).                                *)
(***************************************************************************)
EXTENDS Integers, Sequences, FiniteSets, Bags, TLC

VARIABLES
    msgs,         \* the Message objects ever pushed: id -> [at, mh, index]
    copies,       \* the Message values returned by Push: id -> [mh, index] or NoCopy
    messageHeap,  \* tq.messageHeap: sequence of Message ids
    timer,        \* tq.timer: [armed, at, c]; c is the value buffered in timer.C
    now,          \* the clock
    out,          \* tq.out: the buffered values of the sink channel
    cap,          \* cap(tq.out), fixed by NewCapacity
    stopChan,     \* tq.stopChan # nil
    lock,         \* tq.lock: the call holding it, or NoClient
    rl,           \* the run-loop goroutines: slot -> [pc, peer, m]
    cl,           \* the API calls in progress: slot -> [pc, op, arg, res]
    received,     \* what the consumers received from Messages(), in order
    drained,      \* ids returned by Drain calls so far
    removedOk,    \* ids whose handle was given to a Remove that returned true
    last,         \* the call that returned in the step leading to this state
    crashed       \* the process died of a run-time panic

\* the lock-based TimeQueue q of src/timequeue.go and its goroutines
VARIABLES
    qMsgs,        \* the Messages ever pushed into q: id -> Time
    messages,     \* q.messages: sequence of Message ids
    running,      \* q.running
    wakeSignal,   \* q.wakeSignal and its goroutine: NoSignal or [pc, src, wakeTime, stop]
    wakers,       \* goroutines of killed wakeSignals: bag of [pc, src, wakeTime]
    runners,      \* the run() goroutines: bag of [pc, wakeTime]
    stoppers,     \* goroutines of Stop() waiting to send on q.stopChan
    releasers,    \* goroutines of releaseChan: bag of the sequences left to send
    messageChan,  \* q.messageChan: the buffered values
    consumed,     \* what was received from q.Messages(), in order
    stress        \* the threads of the start and stop stress: [main, pushed, cycler, cycles, size]

\* the lock-based TimeQueue
lockQueue == <<qMsgs, messages, running, wakeSignal, wakers, runners, stoppers,
               releasers, messageChan, consumed, stress>>

\* the pause-handshake TimeQueue
pauseQueue == <<msgs, copies, messageHeap, timer, out, cap, stopChan, lock, rl,
                cl, received, drained, removedOk, last, crashed>>

\* the pause-handshake TimeQueue but for the record of the last call
pauseRest == <<msgs, copies, messageHeap, timer, out, cap, stopChan, lock, rl,
               cl, received, drained, removedOk, crashed>>

vars == <<msgs, copies, messageHeap, timer, now, out, cap, stopChan, lock, rl,
          cl, received, drained, removedOk, last, crashed, lockQueue>>

----------------------------------------------------------------------------
(* Bounds *)

MaxMsgs == 2        \* Messages pushed into the TimeQueue
MaxAt == 2          \* release instants are 1..MaxAt, the clock runs 0..MaxAt
MaxBatch == 2       \* longest PushAll batch
MaxCap == 1         \* largest sink capacity
NumClients == 2     \* calls of the API in progress at once
MaxLoops == 2       \* run-loop goroutine slots
HeapMaxMsgs == 6    \* Messages pushed into the bare messageHeap (HeapSpec)
HeapMaxAt == 3      \* release instants of HeapSpec
MaxPriority == 2    \* priorities given to Push are 1..MaxPriority
HeapMaxPriority == 1 \* priorities of HeapSpec
PrioMaxMsgs == 4    \* Messages pushed into the heap of PrioSpec
PrioMaxAt == 2      \* release instants of PrioSpec

(* Program constants *)

indexNotInHeap == -1
DefaultCapacity == 0

NoClient == 0
NoMsg == 0
NoCopy == [mh |-> "none", index |-> indexNotInHeap]
NoCall == [op |-> "none"]

Clients == 1..NumClients
Loops == 1..MaxLoops

----------------------------------------------------------------------------
(* messageHeap and container/heap, on a pair S = [h, m]:                   *)
(* h the slice of ids, m the Message objects.                              *)

Range(s) == {s[i] : i \in DOMAIN s}

\* NewMessage: the Message of a release instant and the priority Push is
\* given, in no heap
NewMessage(at, p) ==
    [at |-> at, p |-> p, mh |-> "nil", index |-> indexNotInHeap]

\* Message.less: m.at.Before(other.at)
less(m, other) == m.at < other.at

\* an isHead that looks for the head at slot 1
isHead_OffByOne(m) == m.mh = "tq" /\ m.index = 1

\* Message.isHead
isHead(m) == m.mh = "tq" /\ m.index = 0

\* Message.withoutHeap
withoutHeap(m) == [m EXCEPT !.mh = "nil", !.index = indexNotInHeap]

\* messageHeap.Len
HLen(S) == Len(S.h)

\* messageHeap.Less
Less(S, i, j) == less(S.m[S.h[i + 1]], S.m[S.h[j + 1]])

\* a Swap that exchanges the slots and leaves the index fields alone
Swap_KeepsIndex(S, i, j) ==
    [h |-> [S.h EXCEPT ![i + 1] = S.h[j + 1], ![j + 1] = S.h[i + 1]],
     m |-> S.m]

\* messageHeap.Swap: exchange the slots, then store each slot's index in
\* the Message it now holds (for i = j the second store is the same one)
Swap(S, i, j) ==
    LET h1 == [S.h EXCEPT ![i + 1] = S.h[j + 1], ![j + 1] = S.h[i + 1]]
        m1 == [S.m EXCEPT ![h1[i + 1]].index = i]
        m2 == [m1 EXCEPT ![h1[j + 1]].index = j]
    IN  [h |-> h1, m |-> m2]

\* an up that leaves the new element in the last slot
up_Never(S, j) == S

\* container/heap up(h, j)
RECURSIVE up(_, _)
up(S, j) ==
    LET i == (j - 1) \div 2      \* parent; Go truncates (0-1)/2 to 0
        p == IF j = 0 THEN 0 ELSE i
    IN  IF p = j \/ ~Less(S, j, p)
        THEN S
        ELSE up(Swap(S, p, j), p)

\* container/heap down(h, i0, n): the heap after sifting, and the index
\* the element ended at (the Go function returns i > i0)
RECURSIVE downFrom(_, _, _)
downFrom(S, i, n) ==
    LET j1 == 2 * i + 1
        j2 == j1 + 1
        j  == IF j2 < n /\ Less(S, j2, j1) THEN j2 ELSE j1
    IN  IF j1 >= n
        THEN [S |-> S, i |-> i]
        ELSE IF ~Less(S, j, i)
             THEN [S |-> S, i |-> i]
             ELSE downFrom(Swap(S, i, j), j, n)

down(S, i0, n) ==
    LET r == downFrom(S, i0, n)
    IN  [S |-> r.S, moved |-> r.i > i0]

\* messageHeap.Push: m.messageHeap, m.index = mh, n; append
mhPush(S, id) ==
    [h |-> Append(S.h, id),
     m |-> [S.m EXCEPT ![id].mh = "tq", ![id].index = Len(S.h)]]

\* pushMessage = heap.Push: h.Push(x); up(h, h.Len()-1)
pushMessage(S, id) ==
    LET S1 == mhPush(S, id)
    IN  up(S1, HLen(S1) - 1)

\* messageHeap.Pop: detach the last slot's Message and shrink the slice
mhPop(S) ==
    LET n  == Len(S.h)
        id == S.h[n]
    IN  [S |-> [h |-> SubSeq(S.h, 1, n - 1),
                m |-> [S.m EXCEPT ![id] = withoutHeap(S.m[id])]],
         id |-> id]

\* heap.Pop panics in Swap(0, -1) on an empty heap
popPanics(S) == HLen(S) = 0

\* popMessage = heap.Pop: n := Len-1; Swap(0, n); down(0, n); Pop()
popMessage(S) ==
    LET n  == HLen(S) - 1
        S1 == Swap(S, 0, n)
        S2 == down(S1, 0, n).S
    IN  mhPop(S2)

\* messageHeap.peek: the id at slot 0, or NoMsg
peek(S) == IF HLen(S) > 0 THEN S.h[1] ELSE NoMsg

\* heap.Remove(h, i) panics when Swap(i, n) indexes outside the slice
heapRemovePanics(S, i) ==
    LET n == HLen(S) - 1
    IN  n # i /\ (i < 0 \/ i > n \/ n < 0)

\* a Remove that sifts the moved element down only
heapRemove_NoUp(S, i) ==
    LET n  == HLen(S) - 1
        S1 == Swap(S, i, n)
        d  == down(S1, i, n)
    IN  IF n # i THEN mhPop(d.S) ELSE mhPop(S)

\* heap.Remove(h, i): n := Len-1; if n != i {Swap(i, n);
\* if !down(h, i, n) {up(h, i)}}; Pop()
heapRemove(S, i) ==
    LET n  == HLen(S) - 1
        S1 == Swap(S, i, n)
        d  == down(S1, i, n)
        S2 == IF d.moved THEN d.S ELSE up(d.S, i)
    IN  IF n # i THEN mhPop(S2) ELSE mhPop(S)

\* a guard that rejects only a Message in no heap at all
removeRejects_OnlyNil(m) == m.mh = "nil"

\* the guard of messageHeap.remove: m.messageHeap != mh returns false
removeRejects(m) == m.mh # "tq"

\* messageHeap.remove(m), m given by its fields (the object or a copy):
\* [S, ok, panic]
mhRemove(S, m) ==
    IF removeRejects(m)
    THEN [S |-> S, ok |-> FALSE, panic |-> FALSE]
    ELSE IF heapRemovePanics(S, m.index)
         THEN [S |-> S, ok |-> FALSE, panic |-> TRUE]
         ELSE [S |-> heapRemove(S, m.index).S, ok |-> TRUE, panic |-> FALSE]

\* a drain that copies one Message too few
mhDrain_OffByOne(S) ==
    LET kept == IF S.h = <<>> THEN <<>> ELSE SubSeq(S.h, 1, Len(S.h) - 1)
    IN  [S |-> [h |-> <<>>,
                m |-> [id \in DOMAIN S.m |->
                         IF id \in Range(S.h) THEN withoutHeap(S.m[id])
                         ELSE S.m[id]]],
         result |-> kept]

\* messageHeap.drain: every Message detached, the slice emptied; the
\* result holds the Messages in slice order
mhDrain(S) ==
    [S |-> [h |-> <<>>,
            m |-> [id \in DOMAIN S.m |->
                     IF id \in Range(S.h) THEN withoutHeap(S.m[id])
                     ELSE S.m[id]]],
     result |-> S.h]

\* the heap of the TimeQueue as such a pair
TQ == [h |-> messageHeap, m |-> msgs]


----------------------------------------------------------------------------
(* time.Timer: armed means the runtime still has to fire it; c is the      *)
(* value waiting in the one-slot channel timer.C.                          *)

\* a timer that has fired and whose fire was not received
TimerIdle_Unread == [armed |-> FALSE, at |-> 0, c |-> TRUE]

\* newExpiredTimer: time.NewTimer(0), then <-timer.C
TimerIdle == [armed |-> FALSE, at |-> 0, c |-> FALSE]

\* timer.Stop(): reports whether the call stopped the timer
timerStop(t) ==
    [t |-> [t EXCEPT !.armed = FALSE, !.at = IF t.c THEN t.at ELSE 0],
     active |-> t.armed]

\* <-timer.C
timerRecv(t) ==
    [t EXCEPT !.c = FALSE, !.at = IF t.armed THEN t.at ELSE 0]

\* a resetTimerTo that does not arm the timer
resetTimerTo_Noop(t, at) == t

\* a resetTimerTo that arms the timer for the present moment
resetTimerTo_AtOnce(t, at) == [t EXCEPT !.armed = TRUE, !.at = 0]

\* TimeQueue.resetTimerTo: tq.timer.Reset(time.Until(t))
resetTimerTo(t, at) == [t EXCEPT !.armed = TRUE, !.at = at]

\* TimeQueue.stopTimer: if !tq.timer.Stop() { <-tq.timer.C }, up to the
\* receive; blocked means the call has to receive from timer.C
stopTimer(t) ==
    LET r == timerStop(t)
    IN  [t |-> r.t, blocked |-> ~r.active]

\* a release that does not set the timer for the next head
maybeResetTimerToHead_Never(t, S) == t

\* TimeQueue.maybeResetTimerToHead
maybeResetTimerToHead(t, S) ==
    IF peek(S) # NoMsg THEN resetTimerTo(t, S.m[peek(S)].at) ELSE t

\* TimeQueue.isStopped
isStopped == stopChan = FALSE

----------------------------------------------------------------------------
(* The lock-based TimeQueue (src/timequeue.go) over the messageHeap of     *)
(* src/unnamed/part_009, whose Messages carry a Time and no index.  Every  *)
(* exported method holds q.lock from its first statement to its return and *)
(* waits for nothing in between, so a method is one step.                  *)

QMaxMsgs == 2       \* Messages pushed by the stress
QMaxAt == 2         \* their Times are 1..QMaxAt, the clock runs 0..QMaxAt+1
QMaxCycles == 2     \* Stop();Start() rounds of the stress
QCap == 1           \* capacity of q.messageChan
QMaxWakers == 1     \* goroutines of killed wakeSignals alive when a timer fires

NoSignal == [pc |-> "nil", src |-> 0, wakeTime |-> 0, stop |-> "open"]
Selecting == [pc |-> "select", wakeTime |-> 0]

\* one more / one fewer element x in the bag b
BagAdd(b, x) == b (+) SetToBag({x})
BagDel(b, x) == b (-) SetToBag({x})

\* the lock-based heap with its Messages
Q == [h |-> messages, m |-> qMsgs]

\* messageHeap.Less of the lock-based heap: Time.Before
qLess(S, i, j) == S.m[S.h[i + 1]] < S.m[S.h[j + 1]]

\* messageHeap.Swap of the lock-based heap
qSwap(S, i, j) ==
    [S EXCEPT !.h = [S.h EXCEPT ![i + 1] = S.h[j + 1], ![j + 1] = S.h[i + 1]]]

\* container/heap up(h, j) over the lock-based heap
RECURSIVE qUp(_, _)
qUp(S, j) ==
    LET i == (j - 1) \div 2
        p == IF j = 0 THEN 0 ELSE i
    IN  IF p = j \/ ~qLess(S, j, p)
        THEN S
        ELSE qUp(qSwap(S, p, j), p)

\* container/heap down(h, i0, n) over the lock-based heap
RECURSIVE qDown(_, _, _)
qDown(S, i, n) ==
    LET j1 == 2 * i + 1
        j2 == j1 + 1
        j  == IF j2 < n /\ qLess(S, j2, j1) THEN j2 ELSE j1
    IN  IF j1 >= n
        THEN S
        ELSE IF ~qLess(S, j, i)
             THEN S
             ELSE qDown(qSwap(S, i, j), j, n)

\* messageHeap.peekMessage: the Message at index 0, nil on an empty heap
peekMessage(S) == IF Len(S.h) > 0 THEN S.h[1] ELSE NoMsg

\* messageHeap.pushMessage = heap.Push: append, then up(h, Len-1)
qPushMessage(S, id) ==
    LET S1 == [S EXCEPT !.h = Append(S.h, id)]
    IN  qUp(S1, Len(S1.h) - 1)

\* messageHeap.popMessage: nil on an empty heap, else heap.Pop:
\* Swap(0, n); down(0, n); drop the last slot
qPopMessage(S) ==
    IF Len(S.h) = 0
    THEN [S |-> S, id |-> NoMsg]
    ELSE LET n  == Len(S.h) - 1
             S1 == qDown(qSwap(S, 0, n), 0, n)
         IN  [S |-> [S1 EXCEPT !.h = SubSeq(S1.h, 1, n)], id |-> S1.h[n + 1]]

\* a loop that also pops the Messages whose Time is until
RECURSIVE popUntil_Inclusive(_, _, _)
popUntil_Inclusive(S, until, result) ==
    LET message == peekMessage(S)
    IN  IF message # NoMsg /\ S.m[message] <= until
        THEN LET r == qPopMessage(S)
             IN  popUntil_Inclusive(r.S, until, Append(result, r.id))
        ELSE [S |-> S, result |-> result]

\* popAllUntil's loop: pop while the head is strictly before until
RECURSIVE popUntil(_, _, _)
popUntil(S, until, result) ==
    LET message == peekMessage(S)
    IN  IF message # NoMsg /\ S.m[message] < until
        THEN LET r == qPopMessage(S)
             IN  popUntil(r.S, until, Append(result, r.id))
        ELSE [S |-> S, result |-> result]

\* wakeSignal.kill: close(w.stop) panics on a channel that is closed
killPanics(ws) == ws.pc # "nil" /\ ws.stop = "closed"

\* a killWakeSignal that closes the stop channel and keeps q.wakeSignal
killWakeSignal_KeepsPointer(ws, wk) ==
    [wakeSignal |-> IF ws.pc = "nil" THEN ws ELSE [ws EXCEPT !.stop = "closed"],
     wakers |-> wk]

\* wakeSignal.kill on q.wakeSignal, then q.wakeSignal = nil: the goroutine of
\* the killed signal lives on until it takes a case of its select or, when it
\* already took the timer's, until its send on q.wakeChan is received
killWakeSignal(ws, wk) ==
    [wakeSignal |-> NoSignal,
     wakers |-> IF ws.pc \in {"select", "send"}
                THEN BagAdd(wk, [ws EXCEPT !.stop = "closed"])
                ELSE wk]

\* newWakeSignal(q.wakeChan, message.Time) and spawn: time.After fires no
\* earlier than the Time and no earlier than the present instant
newWakeSignal(at, t) ==
    [pc |-> "select", src |-> IF at > t THEN at ELSE t, wakeTime |-> 0,
     stop |-> "open"]

\* updateAndSpawnWakeSignal on heap S at instant t
updateAndSpawnWakeSignal(ws, wk, S, t) ==
    LET k == killWakeSignal(ws, wk)
        message == peekMessage(S)
    IN  IF message = NoMsg
        THEN k
        ELSE [k EXCEPT !.wakeSignal = newWakeSignal(S.m[message], t)]

\* afterHeapUpdate
afterHeapUpdate(ws, wk, S, t) ==
    IF running
    THEN updateAndSpawnWakeSignal(ws, wk, S, t)
    ELSE [wakeSignal |-> ws, wakers |-> wk]

\* a copyChan made without a buffer
copyCap_Unbuffered(result) == 0

\* releaseCopyToChan: copyChan := make(chan *Message, len(messages))
copyCap(result) == Len(result)

\* releaseCopyToChan sends every Message on copyChan before releaseChan
\* spawns the goroutine that receives from it: the method waits for ever,
\* q.lock held, when copyChan cannot hold them all
releaseBlocks(result) == Len(result) > copyCap(result)

\* releaseCopyToChan and releaseChan: a goroutine that sends the copies in
\* order and ends when the copy channel is drained
releaseChan(rs, result) ==
    IF result = <<>> THEN rs ELSE BagAdd(rs, result)

\* the stress before its first statement
StressNew == [main |-> "start", pushed |-> 0, cycler |-> "idle", cycles |-> 0,
              size |-> -1]

\* NewCapacity(capacity) of the lock-based TimeQueue
NewLockQueue ==
    /\ qMsgs = <<>>
    /\ messages = <<>>
    /\ running = FALSE
    /\ wakeSignal = NoSignal
    /\ wakers = EmptyBag
    /\ runners = EmptyBag
    /\ stoppers = 0
    /\ releasers = EmptyBag
    /\ messageChan = <<>>
    /\ consumed = <<>>
    /\ stress = StressNew

----------------------------------------------------------------------------
(* State after NewCapacity(c): the timer expired and drained, the heap     *)
(* empty, and Start() already called.                                      *)

DeadLoop == [pc |-> "dead", peer |-> NoClient, m |-> NoMsg]
FreshLoop == [pc |-> "select", peer |-> NoClient, m |-> NoMsg]
IdleClient == [pc |-> "idle", op |-> "none", arg |-> <<>>, res |-> {}]

Init ==
    /\ msgs = <<>>
    /\ copies = <<>>
    /\ messageHeap = <<>>
    /\ timer = TimerIdle
    /\ now = 0
    /\ out = <<>>
    /\ cap \in DefaultCapacity..MaxCap
    /\ stopChan = TRUE
    /\ lock = NoClient
    /\ rl = [s \in Loops |-> IF s = 1 THEN FreshLoop ELSE DeadLoop]
    /\ cl = [c \in Clients |-> IdleClient]
    /\ received = <<>>
    /\ drained = {}
    /\ removedOk = {}
    /\ last = NoCall
    /\ crashed = FALSE
    /\ NewLockQueue

LiveLoops == {s \in Loops : rl[s].pc # "dead"}

\* a goroutine entering the API takes the first unused call slot
NewCall(c) ==
    /\ cl[c].pc = "idle"
    /\ \A d \in Clients : cl[d].pc = "idle" => c <= d

\* tq.lock.Lock() succeeds
lockIsFree == lock = NoClient

\* the slot the next "go func" of run() takes
FreeSlot == CHOOSE s \in Loops : rl[s].pc = "dead" /\
                \A r \in Loops : rl[r].pc = "dead" => s <= r

----------------------------------------------------------------------------
(* Start and Stop *)

\* start() without its guard
startRefuses_Never == FALSE

\* the guard of start(): if !tq.isStopped() { return false }
startRefuses == ~isStopped

\* a Start whose start() begins with a new expired timer
Start_FreshTimer(c) ==
    /\ ~crashed /\ NewCall(c) /\ lockIsFree
    /\ IF startRefuses
       THEN /\ last' = [op |-> "start", ret |-> FALSE]
            /\ UNCHANGED <<stopChan, rl, timer>>
       ELSE /\ \E s \in Loops : rl[s].pc = "dead"
            /\ stopChan' = TRUE
            /\ rl' = [rl EXCEPT ![FreeSlot] = FreshLoop]
            /\ timer' = TimerIdle
            /\ last' = [op |-> "start", ret |-> TRUE]
    /\ UNCHANGED <<lockQueue, msgs, copies, messageHeap, now, out, cap, lock, cl,
                   received, drained, removedOk, crashed>>

\* Start: Lock; start(); Unlock.  start() does not block, so the call is
\* one step.
Start(c) ==
    /\ ~crashed /\ NewCall(c) /\ lockIsFree
    /\ IF startRefuses
       THEN /\ last' = [op |-> "start", ret |-> FALSE]
            /\ UNCHANGED <<stopChan, rl>>
       ELSE /\ \E s \in Loops : rl[s].pc = "dead"
            /\ stopChan' = TRUE
            /\ rl' = [rl EXCEPT ![FreeSlot] = FreshLoop]
            /\ last' = [op |-> "start", ret |-> TRUE]
    /\ UNCHANGED <<lockQueue, msgs, copies, messageHeap, timer, now, out, cap, lock, cl,
                   received, drained, removedOk, crashed>>

\* stop() with the guard's test inverted
stopRefuses_Inverted == ~isStopped

\* the guard of stop(): if tq.isStopped() { return false }
stopRefuses == isStopped

\* Stop: Lock; stop() up to the send tq.stopChan <- resultChan
StopCall(c) ==
    /\ ~crashed /\ NewCall(c) /\ lockIsFree
    /\ IF stopRefuses
       THEN /\ last' = [op |-> "stop", ret |-> FALSE]
            /\ UNCHANGED <<lock, cl>>
       ELSE /\ lock' = c
            /\ cl' = [cl EXCEPT ![c] = [IdleClient EXCEPT !.pc = "stop_send",
                                                          !.op = "stop"]]
            /\ last' = NoCall
    /\ UNCHANGED <<lockQueue, msgs, copies, messageHeap, timer, now, out, cap, stopChan,
                   rl, received, drained, removedOk, crashed>>

\* a stop handshake that also stops the timer and drains timer.C
RLStop_CancelsTimer(s, c) ==
    /\ ~crashed
    /\ rl[s].pc \in {"select", "check"}
    /\ cl[c].pc = "stop_send"
    /\ rl' = [rl EXCEPT ![s] = DeadLoop]
    /\ cl' = [cl EXCEPT ![c] = IdleClient]
    /\ stopChan' = FALSE
    /\ lock' = NoClient
    /\ timer' = TimerIdle
    /\ last' = [op |-> "stop", ret |-> TRUE]
    /\ UNCHANGED <<lockQueue, msgs, copies, messageHeap, now, out, cap,
                   received, drained, removedOk, crashed>>

\* a run loop that answers the stop request but goes on looping
RLStop_KeepsLooping(s, c) ==
    /\ ~crashed
    /\ rl[s].pc \in {"select", "check"}
    /\ cl[c].pc = "stop_send"
    /\ rl' = [rl EXCEPT ![s].pc = "select"]
    /\ cl' = [cl EXCEPT ![c] = IdleClient]
    /\ stopChan' = FALSE
    /\ lock' = NoClient
    /\ last' = [op |-> "stop", ret |-> TRUE]
    /\ UNCHANGED <<lockQueue, msgs, copies, messageHeap, timer, now, out, cap,
                   received, drained, removedOk, crashed>>

\* run(): case resultChan := <-tq.stopChan, in the 3-way select or in the
\* non-blocking select after it, meets the send of stop(); the run loop
\* answers resultChan <- struct{}{} and returns; stop() receives the
\* answer, sets tq.stopChan = nil, returns true and unlocks
RLStop(s, c) ==
    /\ ~crashed
    /\ rl[s].pc \in {"select", "check"}
    /\ cl[c].pc = "stop_send"
    /\ rl' = [rl EXCEPT ![s] = DeadLoop]
    /\ cl' = [cl EXCEPT ![c] = IdleClient]
    /\ stopChan' = FALSE
    /\ lock' = NoClient
    /\ last' = [op |-> "stop", ret |-> TRUE]
    /\ UNCHANGED <<lockQueue, msgs, copies, messageHeap, timer, now, out, cap,
                   received, drained, removedOk, crashed>>

----------------------------------------------------------------------------
(* The pause handshake and the calls that use it *)

\* pause() that never talks to the run loop
pauseIsNoop_Always == TRUE

\* the guard of pause(): if tq.isStopped() { return func() {} }
pauseIsNoop == isStopped

\* the batches a PushAll call may carry
Batches(n) ==
    UNION {[1..k -> [at : 1..MaxAt, p : 1..MaxPriority]] : k \in 0..n}

\* the handles a caller may give to Remove: the *Message it built for
\* PushAll, the address of the Message value Push returned, a Message
\* of another TimeQueue, or a NewMessage never pushed
Handles ==
    {[kind |-> "ptr", id |-> id] : id \in {i \in DOMAIN msgs : copies[i].mh = "none"}}
    \cup {[kind |-> "copy", id |-> id] :
             id \in {i \in DOMAIN msgs : copies[i].mh \in {"tq", "nil"}}}
    \cup {[kind |-> "foreign", id |-> NoMsg], [kind |-> "fresh", id |-> NoMsg]}

\* the fields Remove reads through the handle
HandleMsg(h) ==
    CASE h.kind = "ptr" -> [mh |-> msgs[h.id].mh, index |-> msgs[h.id].index]
      [] h.kind = "copy" -> copies[h.id]
      [] h.kind = "foreign" -> [mh |-> "other", index |-> 0]
      [] h.kind = "fresh" -> [mh |-> "nil", index |-> indexNotInHeap]

\* Lock, then pause() up to its send tq.pauseChan <- resultChan
Enter(c, op) ==
    /\ ~crashed /\ NewCall(c) /\ lockIsFree
    /\ lock' = c
    /\ cl' = [cl EXCEPT ![c] = [pc |-> IF pauseIsNoop THEN "cs" ELSE "pause_send",
                                op |-> op, arg |-> <<>>, res |-> {}]]
    /\ last' = NoCall
    /\ UNCHANGED <<lockQueue, msgs, copies, messageHeap, timer, now, out, cap, stopChan,
                   rl, received, drained, removedOk, crashed>>

\* Push(at, p, data): NewMessage, then PushAll(m)
PushCall(c) == Len(msgs) < MaxMsgs /\ Enter(c, "push")

\* PushAll(messages...)
PushAllCall(c) == Enter(c, "pushall")

\* Remove(m)
RemoveCall(c) == Enter(c, "remove")

\* Drain()
DrainCall(c) == Enter(c, "drain")

\* run(): case resultChan := <-tq.pauseChan meets the send of pause(),
\* the run loop answers resultChan <- struct{}{}, pause() receives the
\* answer and returns; the run loop then waits in <-resultChan
RLPause(s, c) ==
    /\ ~crashed
    /\ rl[s].pc = "select"
    /\ cl[c].pc = "pause_send"
    /\ rl' = [rl EXCEPT ![s].pc = "paused", ![s].peer = c]
    /\ cl' = [cl EXCEPT ![c].pc = "cs"]
    /\ last' = NoCall
    /\ UNCHANGED <<lockQueue, msgs, copies, messageHeap, timer, now, out, cap, stopChan,
                   lock, received, drained, removedOk, crashed>>

\* a return that unlocks without the deferred unpause()
Return_NoUnpause(c, call, next) ==
    /\ rl' = rl
    /\ lock' = NoClient
    /\ cl' = [cl EXCEPT ![c] = next]
    /\ last' = call

\* the deferred unpause() (resultChan <- struct{}{} meets the run loop's
\* <-resultChan) and the deferred Unlock, then the return
Return(c, call, next) ==
    /\ rl' = [s \in Loops |->
                IF rl[s].pc = "paused" /\ rl[s].peer = c
                THEN [rl[s] EXCEPT !.pc = "check", !.peer = NoClient]
                ELSE rl[s]]
    /\ lock' = NoClient
    /\ cl' = [cl EXCEPT ![c] = next]
    /\ last' = call

\* the call reaches <-tq.timer.C of stopTimer
BlockOnTimer(c, arg) ==
    /\ cl' = [cl EXCEPT ![c].pc = "timer_wait", ![c].arg = arg]
    /\ last' = NoCall
    /\ UNCHANGED <<rl, lock>>

\* the loop of PushAll: pushMessage each m, newHead = m if m.isHead()
RECURSIVE pushLoop(_, _, _)
pushLoop(S, ids, newHead) ==
    IF ids = <<>>
    THEN [S |-> S, newHead |-> newHead]
    ELSE LET S1 == pushMessage(S, Head(ids))
         IN  pushLoop(S1, Tail(ids),
                      IF isHead(S1.m[Head(ids)]) THEN Head(ids) ELSE newHead)

\* PushAll: only the Message left alone in the heap has its timer set
\* without a stopTimer first
setsWithoutStop(S) == HLen(S) = 1

PushReturn(c) == Return(c, [op |-> cl[c].op], IdleClient)

\* PushAll between pause() and its return, for the Messages with the
\* release instants b
PushBatch(c, b) ==
    LET n    == Len(msgs)
        ids  == [i \in 1..Len(b) |-> n + i]
        m0   == msgs \o [i \in 1..Len(b) |->
                           NewMessage(b[i].at, b[i].p)]
        r    == pushLoop([h |-> messageHeap, m |-> m0], ids, NoMsg)
        st   == stopTimer(timer)
    IN
    /\ ~crashed
    /\ cl[c].pc = "cs"
    /\ Len(msgs) + Len(b) <= MaxMsgs
    /\ messageHeap' = r.S.h
    /\ msgs' = r.S.m
    /\ copies' = copies \o [i \in 1..Len(b) |->
                              IF cl[c].op = "push"
                              THEN [mh |-> "pending", index |-> indexNotInHeap]
                              ELSE NoCopy]
    /\ IF r.newHead = NoMsg
       THEN /\ timer' = timer
            /\ PushReturn(c)
       ELSE IF setsWithoutStop(r.S)
       THEN /\ timer' = resetTimerTo(timer, r.S.m[r.newHead].at)
            /\ PushReturn(c)
       ELSE IF st.blocked
       THEN /\ timer' = st.t
            /\ BlockOnTimer(c, r.S.m[r.newHead].at)
       ELSE /\ timer' = resetTimerTo(st.t, r.S.m[r.newHead].at)
            /\ PushReturn(c)
    /\ UNCHANGED <<lockQueue, now, out, cap, stopChan, received, drained, removedOk,
                   crashed>>

\* Push(at, p, data): PushAll of the one new Message
PushOne(c) ==
    /\ cl[c].op = "push"
    /\ \E at \in 1..MaxAt, p \in 1..MaxPriority :
          PushBatch(c, <<[at |-> at, p |-> p]>>)

\* PushAll(messages...)
PushMany(c) ==
    /\ cl[c].op = "pushall"
    /\ \E b \in Batches(MaxBatch) : PushBatch(c, b)

PushBody(c) ==
    \/ PushOne(c)
    \/ PushMany(c)

\* return *m of Push: the Message is copied after PushAll has unlocked,
\* unsynchronised with whatever touches it by then
PushCopy(id) ==
    /\ ~crashed
    /\ copies[id].mh = "pending"
    /\ copies' = [copies EXCEPT ![id] = [mh |-> msgs[id].mh,
                                         index |-> msgs[id].index]]
    /\ last' = NoCall
    /\ UNCHANGED <<lockQueue, msgs, messageHeap, timer, now, out, cap, stopChan, lock, rl,
                   cl, received, drained, removedOk, crashed>>

\* a remove that leaves the timer as it is
removeTouchesTimer_Never(ok, head) == FALSE

\* a remove that stops and resets the timer whenever it succeeded
removeTouchesTimer_Always(ok, head) == ok

\* remove(): the timer is touched only if ok && isHead
removeTouchesTimer(ok, head) == ok /\ head

\* remove between pause() and its return, for the handle h
RemoveHandle(c, h) ==
    LET m    == HandleMsg(h)
        head == isHead(m)
        r    == mhRemove(TQ, m)
        took == IF r.ok THEN CHOOSE id \in Range(messageHeap) :
                                 id \notin Range(r.S.h)
                ELSE NoMsg
        st   == stopTimer(timer)
        call == [op |-> "remove", ret |-> r.ok, arg |-> h, took |-> took]
    IN
    /\ ~crashed
    /\ cl[c].pc = "cs" /\ cl[c].op = "remove"
    /\ IF r.panic
       THEN /\ crashed' = TRUE
            /\ last' = NoCall
            /\ UNCHANGED <<msgs, messageHeap, timer, rl, lock, cl, removedOk>>
       ELSE /\ crashed' = crashed
            /\ messageHeap' = r.S.h
            /\ msgs' = r.S.m
            /\ removedOk' = IF r.ok /\ h.id # NoMsg THEN removedOk \cup {h.id}
                            ELSE removedOk
            /\ IF ~removeTouchesTimer(r.ok, head)
               THEN /\ timer' = timer
                    /\ Return(c, call, IdleClient)
               ELSE IF st.blocked
               THEN /\ timer' = st.t
                    /\ BlockOnTimer(c, call)
               ELSE /\ timer' = maybeResetTimerToHead(st.t, r.S)
                    /\ Return(c, call, IdleClient)
    /\ UNCHANGED <<lockQueue, copies, now, out, cap, stopChan, received, drained>>

RemoveBody(c) == \E h \in Handles : RemoveHandle(c, h)

\* a drain that never stops the timer
drainStopsTimer_Never(S) == FALSE

\* drain(): if tq.messageHeap.Len() > 0 { defer tq.stopTimer() }
drainStopsTimer(S) == HLen(S) > 0

\* drain: the deferred stopTimer is decided, then tq.messageHeap.drain()
DrainBody(c) ==
    LET r == mhDrain(TQ) IN
    /\ ~crashed
    /\ cl[c].pc = "cs" /\ cl[c].op = "drain"
    /\ messageHeap' = r.S.h
    /\ msgs' = r.S.m
    /\ cl' = [cl EXCEPT ![c].pc = "drain_loop",
                        ![c].arg = [stop |-> drainStopsTimer(TQ), sink |-> {}],
                        ![c].res = Range(r.result)]
    /\ last' = NoCall
    /\ UNCHANGED <<lockQueue, copies, timer, now, out, cap, stopChan, lock, rl, received,
                   drained, removedOk, crashed>>

\* drain: the test len(tq.out) > 0; when it fails the deferred stopTimer
\* runs and the call returns
DrainCheck(c) ==
    LET st   == stopTimer(timer)
        call == [op |-> "drain", ret |-> cl[c].res, sink |-> cl[c].arg.sink]
    IN
    /\ ~crashed
    /\ cl[c].pc = "drain_loop"
    /\ IF Len(out) > 0
       THEN /\ cl' = [cl EXCEPT ![c].pc = "drain_recv"]
            /\ last' = NoCall
            /\ UNCHANGED <<timer, rl, lock, drained>>
       ELSE IF cl[c].arg.stop /\ st.blocked
       THEN /\ timer' = st.t
            /\ BlockOnTimer(c, call)
            /\ UNCHANGED drained
       ELSE /\ timer' = IF cl[c].arg.stop THEN st.t ELSE timer
            /\ drained' = drained \cup cl[c].res
            /\ Return(c, call, IdleClient)
    /\ UNCHANGED <<lockQueue, msgs, copies, messageHeap, now, out, cap, stopChan,
                   received, removedOk, crashed>>

\* drain: result = append(result, <-tq.out)
DrainRecv(c) ==
    /\ ~crashed
    /\ cl[c].pc = "drain_recv"
    /\ Len(out) > 0
    /\ out' = Tail(out)
    /\ cl' = [cl EXCEPT ![c].pc = "drain_loop", ![c].res = @ \cup {Head(out)},
                        ![c].arg.sink = @ \cup {Head(out)}]
    /\ last' = NoCall
    /\ UNCHANGED <<lockQueue, msgs, copies, messageHeap, timer, now, cap, stopChan, lock,
                   rl, received, drained, removedOk, crashed>>

\* stopTimer: <-tq.timer.C gets the value waiting in timer.C; the call
\* goes on from there
TimerWaitDone(c) ==
    LET t1 == timerRecv(timer) IN
    /\ ~crashed
    /\ cl[c].pc = "timer_wait"
    /\ timer.c
    /\ CASE cl[c].op \in {"push", "pushall"} ->
              /\ timer' = resetTimerTo(t1, cl[c].arg)
              /\ PushReturn(c)
              /\ UNCHANGED drained
         [] cl[c].op = "remove" ->
              /\ timer' = maybeResetTimerToHead(t1, TQ)
              /\ Return(c, cl[c].arg, IdleClient)
              /\ UNCHANGED drained
         [] cl[c].op = "drain" ->
              /\ timer' = t1
              /\ drained' = drained \cup cl[c].res
              /\ Return(c, cl[c].arg, IdleClient)
    /\ UNCHANGED <<lockQueue, msgs, copies, messageHeap, now, out, cap, stopChan,
                   received, removedOk, crashed>>

----------------------------------------------------------------------------
(* The run loop, the timer, the clock and the consumers *)

\* run(): case <-tq.timer.C, then popMessage of releaseNextMessage
RLTimer(s) ==
    /\ ~crashed
    /\ rl[s].pc = "select"
    /\ timer.c
    /\ timer' = timerRecv(timer)
    /\ IF popPanics(TQ)
       THEN /\ crashed' = TRUE
            /\ UNCHANGED <<msgs, messageHeap, rl>>
       ELSE LET r == popMessage(TQ) IN
            /\ crashed' = crashed
            /\ messageHeap' = r.S.h
            /\ msgs' = r.S.m
            /\ rl' = [rl EXCEPT ![s].pc = "dispatch", ![s].m = r.id]
    /\ last' = NoCall
    /\ UNCHANGED <<lockQueue, copies, now, out, cap, stopChan, lock, cl, received,
                   drained, removedOk>>

\* a dispatch into a sink that buffers one Message even when it was made
\* with capacity 0
RLDispatch_AtLeastOne(s) ==
    /\ ~crashed
    /\ rl[s].pc = "dispatch"
    /\ Len(out) < (IF cap = 0 THEN 1 ELSE cap)
    /\ out' = Append(out, rl[s].m)
    /\ timer' = maybeResetTimerToHead(timer, TQ)
    /\ rl' = [rl EXCEPT ![s].pc = "check", ![s].m = NoMsg]
    /\ last' = NoCall
    /\ UNCHANGED <<lockQueue, msgs, copies, messageHeap, now, cap, stopChan, lock,
                   cl, received, drained, removedOk, crashed>>

\* dispatch: tq.out <- *m finds room in the buffer; then
\* releaseNextMessage goes on to tq.maybeResetTimerToHead()
RLDispatch(s) ==
    /\ ~crashed
    /\ rl[s].pc = "dispatch"
    /\ Len(out) < cap
    /\ out' = Append(out, rl[s].m)
    /\ timer' = maybeResetTimerToHead(timer, TQ)
    /\ rl' = [rl EXCEPT ![s].pc = "check", ![s].m = NoMsg]
    /\ last' = NoCall
    /\ UNCHANGED <<lockQueue, msgs, copies, messageHeap, now, cap, stopChan, lock,
                   cl, received, drained, removedOk, crashed>>

\* dispatch on an unbuffered sink: tq.out <- *m meets a consumer's
\* receive; then tq.maybeResetTimerToHead()
RLHandoff(s) ==
    /\ ~crashed
    /\ rl[s].pc = "dispatch"
    /\ cap = 0
    /\ received' = Append(received, rl[s].m)
    /\ timer' = maybeResetTimerToHead(timer, TQ)
    /\ rl' = [rl EXCEPT ![s].pc = "check", ![s].m = NoMsg]
    /\ last' = NoCall
    /\ UNCHANGED <<lockQueue, msgs, copies, messageHeap, now, out, cap, stopChan,
                   lock, cl, drained, removedOk, crashed>>

\* a second select that takes its default case whether or not a stop()
\* is sending
RLCheck_IgnoresStop(s) ==
    /\ ~crashed
    /\ rl[s].pc = "check"
    /\ rl' = [rl EXCEPT ![s].pc = "select"]
    /\ last' = NoCall
    /\ UNCHANGED <<lockQueue, msgs, copies, messageHeap, timer, now, out, cap, stopChan,
                   lock, cl, received, drained, removedOk, crashed>>

\* run(): the default case of the second select, taken when no stop()
\* is sending
RLCheck(s) ==
    /\ ~crashed
    /\ rl[s].pc = "check"
    /\ \A c \in Clients : cl[c].pc # "stop_send"
    /\ rl' = [rl EXCEPT ![s].pc = "select"]
    /\ last' = NoCall
    /\ UNCHANGED <<lockQueue, msgs, copies, messageHeap, timer, now, out, cap, stopChan,
                   lock, cl, received, drained, removedOk, crashed>>

\* a consumer receives from Messages()
Consume ==
    /\ ~crashed
    /\ Len(out) > 0
    /\ received' = Append(received, Head(out))
    /\ out' = Tail(out)
    /\ last' = NoCall
    /\ UNCHANGED <<lockQueue, msgs, copies, messageHeap, timer, now, cap, stopChan, lock,
                   rl, cl, drained, removedOk, crashed>>

\* the runtime fires the timer: a value is put in timer.C unless one is
\* already waiting there
TimerFire ==
    /\ ~crashed
    /\ timer.armed
    /\ now >= timer.at
    /\ timer' = [timer EXCEPT !.armed = FALSE, !.c = TRUE]
    /\ last' = NoCall
    /\ UNCHANGED <<lockQueue, msgs, copies, messageHeap, now, out, cap, stopChan, lock,
                   rl, cl, received, drained, removedOk, crashed>>

\* time passes
Tick ==
    /\ ~crashed
    /\ now < MaxAt
    /\ now' = now + 1
    /\ last' = NoCall
    /\ UNCHANGED <<lockQueue, msgs, copies, messageHeap, timer, out, cap, stopChan, lock,
                   rl, cl, received, drained, removedOk, crashed>>

Next ==
    \/ \E c \in Clients : Start(c)
    \/ \E c \in Clients : StopCall(c)
    \/ \E c \in Clients : PushCall(c)
    \/ \E c \in Clients : PushAllCall(c)
    \/ \E c \in Clients : RemoveCall(c)
    \/ \E c \in Clients : DrainCall(c)
    \/ \E c \in Clients : PushBody(c)
    \/ \E id \in DOMAIN msgs : PushCopy(id)
    \/ \E c \in Clients : RemoveBody(c)
    \/ \E c \in Clients : DrainBody(c)
    \/ \E c \in Clients : DrainCheck(c)
    \/ \E c \in Clients : DrainRecv(c)
    \/ \E c \in Clients : TimerWaitDone(c)
    \/ \E s \in Loops, c \in Clients : RLStop(s, c)
    \/ \E s \in Loops, c \in Clients : RLPause(s, c)
    \/ \E s \in Loops : RLTimer(s)
    \/ \E s \in Loops : RLDispatch(s)
    \/ \E s \in Loops : RLHandoff(s)
    \/ \E s \in Loops : RLCheck(s)
    \/ Consume
    \/ TimerFire
    \/ Tick

Spec == Init /\ [][Next]_vars

----------------------------------------------------------------------------
(* The messageHeap on its own: Messages made by NewMessage are pushed,     *)
(* popped, removed and drained with no TimeQueue around the heap.          *)

HeapInit ==
    /\ Init
    /\ cap = DefaultCapacity

\* the heap methods touch the slice and the Messages only
HeapOnly ==
    /\ ~crashed
    /\ UNCHANGED <<lockQueue, copies, timer, now, out, cap, stopChan, lock, rl, cl,
                   received, drained, removedOk>>

\* NewMessage(at, data), then pushMessage(&mh, m)
HPush(at, p) ==
    LET id == Len(msgs) + 1
        m0 == Append(msgs, NewMessage(at, p))
        S  == pushMessage([h |-> messageHeap, m |-> m0], id)
    IN
    /\ Len(msgs) < HeapMaxMsgs
    /\ messageHeap' = S.h
    /\ msgs' = S.m
    /\ last' = NoCall
    /\ crashed' = FALSE
    /\ HeapOnly

\* popMessage(&mh); on an empty heap heap.Pop panics
HPop ==
    LET r == popMessage(TQ)
    IN
    /\ IF popPanics(TQ)
       THEN /\ crashed' = TRUE
            /\ last' = NoCall
            /\ UNCHANGED <<messageHeap, msgs>>
       ELSE /\ messageHeap' = r.S.h
            /\ msgs' = r.S.m
            /\ last' = [op |-> "hpop", id |-> r.id]
            /\ crashed' = FALSE
    /\ HeapOnly

\* mh.remove(m) for a Message m made earlier, live or not
HRemove(id) ==
    LET r == mhRemove(TQ, msgs[id])
    IN
    /\ ~r.panic
    /\ messageHeap' = r.S.h
    /\ msgs' = r.S.m
    /\ last' = [op |-> "hremove", ret |-> r.ok, id |-> id,
                live |-> id \in Range(messageHeap),
                index |-> msgs[id].index, n |-> Len(messageHeap),
                before |-> Range(messageHeap),
                moved |-> IF messageHeap = <<>> THEN NoMsg
                          ELSE messageHeap[Len(messageHeap)]]
    /\ crashed' = FALSE
    /\ HeapOnly

\* mh.drain()
HDrain ==
    LET r == mhDrain(TQ)
    IN
    /\ messageHeap # <<>>
    /\ messageHeap' = r.S.h
    /\ msgs' = r.S.m
    /\ last' = NoCall
    /\ crashed' = FALSE
    /\ HeapOnly

HeapNext ==
    \/ \E at \in 1..HeapMaxAt, p \in 1..HeapMaxPriority : HPush(at, p)
    \/ HPop
    \/ \E id \in DOMAIN msgs : HRemove(id)
    \/ HDrain

HeapSpec == HeapInit /\ [][HeapNext]_vars

\* the same heap with Messages of every priority, fewer of them
PrioPush(at, p) == Len(msgs) < PrioMaxMsgs /\ HPush(at, p)

PrioNext ==
    \/ \E at \in 1..PrioMaxAt, p \in 1..MaxPriority : PrioPush(at, p)
    \/ HPop
    \/ \E id \in DOMAIN msgs : HRemove(id)
    \/ HDrain

PrioSpec == HeapInit /\ [][PrioNext]_vars

----------------------------------------------------------------------------
(* Fairness: a goroutine that can take its next step takes it (the run     *)
(* loop, a call past its entry, the consumers), the runtime fires a due    *)
(* timer and time passes.  Whether a new call is made is up to the caller. *)

RunLoopFair ==
    /\ \A s \in Loops : WF_vars(RLTimer(s))
    /\ \A s \in Loops : WF_vars(RLDispatch(s))
    /\ \A s \in Loops : WF_vars(RLHandoff(s))
    /\ \A s \in Loops : WF_vars(RLCheck(s))
    /\ \A s \in Loops : WF_vars(\E c \in Clients : RLStop(s, c))
    /\ \A s \in Loops : WF_vars(\E c \in Clients : RLPause(s, c))

CallsFair ==
    \A c \in Clients :
        /\ WF_vars(PushBody(c))
        /\ WF_vars(TimerWaitDone(c))

WorldFair ==
    /\ WF_vars(Consume)
    /\ WF_vars(TimerFire)
    /\ WF_vars(Tick)

AllCallsFair ==
    \A c \in Clients :
        /\ WF_vars(PushBody(c))
        /\ WF_vars(RemoveBody(c))
        /\ WF_vars(DrainBody(c))
        /\ WF_vars(DrainCheck(c))
        /\ WF_vars(DrainRecv(c))
        /\ WF_vars(TimerWaitDone(c))

\* the TimeQueue with every goroutine, the timer, the clock and the
\* consumers fair
FairSpec == Spec /\ RunLoopFair /\ AllCallsFair /\ WorldFair

----------------------------------------------------------------------------
(* Pushing while stopped: Messages are pushed by Push only, and only while *)
(* the queue is stopped; the queue is stopped and started at will.         *)

StoppedPush(c) == isStopped /\ PushCall(c)

StoppedPushNext ==
    \/ \E c \in Clients : Start(c)
    \/ \E c \in Clients : StopCall(c)
    \/ \E c \in Clients : StoppedPush(c)
    \/ \E c \in Clients : PushOne(c)
    \/ \E id \in DOMAIN msgs : PushCopy(id)
    \/ \E c \in Clients : TimerWaitDone(c)
    \/ \E s \in Loops, c \in Clients : RLStop(s, c)
    \/ \E s \in Loops : RLTimer(s)
    \/ \E s \in Loops : RLDispatch(s)
    \/ \E s \in Loops : RLHandoff(s)
    \/ \E s \in Loops : RLCheck(s)
    \/ Consume
    \/ TimerFire
    \/ Tick

StoppedPushSpec ==
    /\ Init /\ [][StoppedPushNext]_vars
    /\ RunLoopFair /\ CallsFair /\ WorldFair

----------------------------------------------------------------------------
(* Pushing while running: the queue is never stopped, Messages are pushed  *)
(* by Push only and the consumers keep receiving.  Time may stand still:   *)
(* no fairness is asked of the clock.                                      *)

RunningPushNext ==
    \/ \E c \in Clients : PushCall(c)
    \/ \E c \in Clients : PushOne(c)
    \/ \E id \in DOMAIN msgs : PushCopy(id)
    \/ \E c \in Clients : TimerWaitDone(c)
    \/ \E s \in Loops, c \in Clients : RLPause(s, c)
    \/ \E s \in Loops : RLTimer(s)
    \/ \E s \in Loops : RLDispatch(s)
    \/ \E s \in Loops : RLHandoff(s)
    \/ \E s \in Loops : RLCheck(s)
    \/ Consume
    \/ TimerFire
    \/ Tick

RunningPushSpec ==
    /\ Init /\ [][RunningPushNext]_vars
    /\ RunLoopFair /\ CallsFair
    /\ WF_vars(Consume) /\ WF_vars(TimerFire)

----------------------------------------------------------------------------
(* The delivery scenario: every Message is pushed before any is released,  *)
(* one by one while the queue is stopped or as the one PushAll batch of a  *)
(* queue that holds nothing yet; nothing is removed or drained and the     *)
(* consumers keep receiving.                                               *)

NothingReleased == Range(messageHeap) = DOMAIN msgs

DeliveryNext ==
    \/ \E c \in Clients : Start(c)
    \/ \E c \in Clients : StopCall(c)
    \/ \E c \in Clients : isStopped /\ NothingReleased /\ PushCall(c)
    \/ \E c \in Clients : /\ (isStopped /\ NothingReleased) \/ msgs = <<>>
                          /\ PushAllCall(c)
    \/ \E c \in Clients : PushBody(c)
    \/ \E id \in DOMAIN msgs : PushCopy(id)
    \/ \E c \in Clients : TimerWaitDone(c)
    \/ \E s \in Loops, c \in Clients : RLStop(s, c)
    \/ \E s \in Loops, c \in Clients : RLPause(s, c)
    \/ \E s \in Loops : RLTimer(s)
    \/ \E s \in Loops : RLDispatch(s)
    \/ \E s \in Loops : RLHandoff(s)
    \/ \E s \in Loops : RLCheck(s)
    \/ Consume
    \/ TimerFire
    \/ Tick

DeliverySpec == Init /\ [][DeliveryNext]_vars

----------------------------------------------------------------------------
(* The lock-based TimeQueue under the start and stop stress                *)
(* (TestTimeQueue_acceptance_startAndStopStress): the main thread starts   *)
(* the queue, pushes QMaxMsgs Messages, spawns a thread that calls Stop()  *)
(* then Start() QMaxCycles times, receives QMaxMsgs Messages and asks for  *)
(* Size(); its deferred Stop() runs last.                                   *)

\* what no step of the lock-based queue changes; a step that is not the
\* return of PopAllUntil, PopAll or Pop records no call
LockOnly ==
    /\ UNCHANGED <<pauseRest, now>>
    /\ last' = NoCall

\* a Start that sets running and spawns the wake signal but no run()
QStart_NoRun ==
    /\ IF running
       THEN UNCHANGED <<running, wakeSignal, wakers>>
       ELSE LET u == updateAndSpawnWakeSignal(wakeSignal, wakers, Q, now)
            IN  /\ running' = TRUE
                /\ wakeSignal' = u.wakeSignal
                /\ wakers' = u.wakers
    /\ UNCHANGED <<qMsgs, messages, runners, stoppers, releasers, messageChan,
                   consumed>>

\* TimeQueue.Start
QStart ==
    /\ IF running
       THEN UNCHANGED <<running, runners, wakeSignal, wakers>>
       ELSE LET u == updateAndSpawnWakeSignal(wakeSignal, wakers, Q, now)
            IN  /\ running' = TRUE
                /\ runners' = BagAdd(runners, Selecting)
                /\ wakeSignal' = u.wakeSignal
                /\ wakers' = u.wakers
    /\ UNCHANGED <<qMsgs, messages, stoppers, releasers, messageChan, consumed>>

\* TimeQueue.Stop
QStop ==
    /\ IF ~running
       THEN UNCHANGED <<running, stoppers, wakeSignal, wakers>>
       ELSE LET k == killWakeSignal(wakeSignal, wakers)
            IN  /\ running' = FALSE
                /\ stoppers' = stoppers + 1
                /\ wakeSignal' = k.wakeSignal
                /\ wakers' = k.wakers
    /\ UNCHANGED <<qMsgs, messages, runners, releasers, messageChan, consumed>>

\* TimeQueue.Push(time, data) = PushMessage(&Message{time, data})
QPush(at) ==
    LET id == Len(qMsgs) + 1
        S  == qPushMessage([h |-> messages, m |-> Append(qMsgs, at)], id)
        a  == afterHeapUpdate(wakeSignal, wakers, S, now)
    IN  /\ qMsgs' = S.m
        /\ messages' = S.h
        /\ wakeSignal' = a.wakeSignal
        /\ wakers' = a.wakers
        /\ UNCHANGED <<running, runners, stoppers, releasers, messageChan,
                       consumed>>

\* tq.Start() of the main thread
MainStart ==
    /\ stress.main = "start"
    /\ QStart
    /\ stress' = [stress EXCEPT !.main = "push"]
    /\ LockOnly

\* one round of the push loop of the main thread
MainPush ==
    /\ stress.main = "push"
    /\ stress.pushed < QMaxMsgs
    /\ \E at \in 1..QMaxAt : QPush(at)
    /\ stress' = [stress EXCEPT !.pushed = @ + 1]
    /\ LockOnly

\* go func() { for ... { tq.Stop(); tq.Start() } }() after the push loop
MainGo ==
    /\ stress.main = "push"
    /\ stress.pushed = QMaxMsgs
    /\ stress' = [stress EXCEPT !.main = "recv",
                                !.cycler = IF QMaxCycles > 0 THEN "stop" ELSE "done"]
    /\ UNCHANGED <<qMsgs, messages, running, wakeSignal, wakers, runners,
                   stoppers, releasers, messageChan, consumed>>
    /\ LockOnly

\* <-tq.Messages() of the main thread
MainRecv ==
    /\ stress.main = "recv"
    /\ messageChan # <<>>
    /\ messageChan' = Tail(messageChan)
    /\ consumed' = Append(consumed, Head(messageChan))
    /\ stress' = [stress EXCEPT
                    !.main = IF Len(consumed) + 1 = QMaxMsgs THEN "size" ELSE "recv"]
    /\ UNCHANGED <<qMsgs, messages, running, wakeSignal, wakers, runners,
                   stoppers, releasers>>
    /\ LockOnly

\* tq.Size() of the main thread
MainSize ==
    /\ stress.main = "size"
    /\ stress' = [stress EXCEPT !.main = "defer", !.size = Len(messages)]
    /\ UNCHANGED <<qMsgs, messages, running, wakeSignal, wakers, runners,
                   stoppers, releasers, messageChan, consumed>>
    /\ LockOnly

\* the deferred tq.Stop() of the main thread
MainDeferredStop ==
    /\ stress.main = "defer"
    /\ QStop
    /\ stress' = [stress EXCEPT !.main = "done"]
    /\ LockOnly

\* tq.Stop() of the cycling thread
CyclerStop ==
    /\ stress.cycler = "stop"
    /\ QStop
    /\ stress' = [stress EXCEPT !.cycler = "start"]
    /\ LockOnly

\* tq.Start() of the cycling thread, and its loop test
CyclerStart ==
    /\ stress.cycler = "start"
    /\ QStart
    /\ stress' = [stress EXCEPT
                    !.cycles = @ + 1,
                    !.cycler = IF stress.cycles + 1 = QMaxCycles THEN "done" ELSE "stop"]
    /\ LockOnly

\* wakeSignal.spawn's goroutine takes `case wakeTime := <-w.src`: the timer
\* fired at some instant from src on, and the goroutine is now committed to
\* the send on q.wakeChan.  Every wake of a running queue leaves killed
\* signals behind; the timer of a signal fires once fewer than QMaxWakers
\* goroutines of other killed signals are alive
wakeFires(w, others) ==
    /\ w.pc = "select"
    /\ now >= w.src
    /\ others < QMaxWakers

\* the goroutine of q.wakeSignal takes the timer's case
WakeFire ==
    /\ wakeFires(wakeSignal, BagCardinality(wakers))
    /\ \E t \in wakeSignal.src..now :
           wakeSignal' = [pc |-> "send", src |-> wakeSignal.src, wakeTime |-> t,
                          stop |-> wakeSignal.stop]
    /\ UNCHANGED <<qMsgs, messages, running, wakers, runners, stoppers,
                   releasers, messageChan, consumed, stress>>
    /\ LockOnly

\* the goroutine of a killed wakeSignal takes the timer's case: both cases
\* of its select are ready and Go picks either
WakerFire ==
    /\ \E w \in BagToSet(wakers) :
         /\ wakeFires(w, BagCardinality(wakers) - 1)
         /\ \E t \in w.src..now :
                wakers' = BagAdd(BagDel(wakers, w),
                                 [pc |-> "send", src |-> w.src, wakeTime |-> t,
                                  stop |-> w.stop])
    /\ UNCHANGED <<qMsgs, messages, running, wakeSignal, runners, stoppers,
                   releasers, messageChan, consumed, stress>>
    /\ LockOnly

\* the goroutine of a killed wakeSignal takes `case <-w.stop` and ends
WakerStop ==
    /\ \E w \in BagToSet(wakers) :
         /\ w.pc = "select"
         /\ wakers' = BagDel(wakers, w)
    /\ UNCHANGED <<qMsgs, messages, running, wakeSignal, runners, stoppers,
                   releasers, messageChan, consumed, stress>>
    /\ LockOnly

\* run(): `case wakeTime := <-q.wakeChan` meets the send of q.wakeSignal's
\* goroutine, which ends
RunWake ==
    /\ BagIn(Selecting, runners)
    /\ wakeSignal.pc = "send"
    /\ runners' = BagAdd(BagDel(runners, Selecting),
                         [pc |-> "onWake", wakeTime |-> wakeSignal.wakeTime])
    /\ wakeSignal' = [pc |-> "done", src |-> 0, wakeTime |-> 0,
                      stop |-> wakeSignal.stop]
    /\ UNCHANGED <<qMsgs, messages, running, wakers, stoppers, releasers,
                   messageChan, consumed, stress>>
    /\ LockOnly

\* run(): `case wakeTime := <-q.wakeChan` meets the send of a killed
\* wakeSignal's goroutine, which ends
RunStaleWake ==
    /\ BagIn(Selecting, runners)
    /\ \E w \in BagToSet(wakers) :
         /\ w.pc = "send"
         /\ wakers' = BagDel(wakers, w)
         /\ runners' = BagAdd(BagDel(runners, Selecting),
                              [pc |-> "onWake", wakeTime |-> w.wakeTime])
    /\ UNCHANGED <<qMsgs, messages, running, wakeSignal, stoppers, releasers,
                   messageChan, consumed, stress>>
    /\ LockOnly

\* TimeQueue.onWake(wakeTime) in a run() goroutine, which then selects again
RunOnWake ==
    /\ \E r \in BagToSet(runners) :
         /\ r.pc = "onWake"
         /\ ~releaseBlocks(popUntil(Q, r.wakeTime, <<>>).result)
         /\ LET p == popUntil(Q, r.wakeTime, <<>>)
                a == afterHeapUpdate(wakeSignal, wakers, p.S, now)
                u == updateAndSpawnWakeSignal(a.wakeSignal, a.wakers, p.S, now)
            IN  /\ messages' = p.S.h
                /\ releasers' = releaseChan(releasers, p.result)
                /\ wakeSignal' = u.wakeSignal
                /\ wakers' = u.wakers
         /\ runners' = BagAdd(BagDel(runners, r), Selecting)
    /\ UNCHANGED <<qMsgs, running, stoppers, messageChan, consumed, stress>>
    /\ LockOnly

\* run(): `case <-q.stopChan` meets the send of a Stop() goroutine; both end
RunStop ==
    /\ BagIn(Selecting, runners)
    /\ stoppers > 0
    /\ runners' = BagDel(runners, Selecting)
    /\ stoppers' = stoppers - 1
    /\ UNCHANGED <<qMsgs, messages, running, wakeSignal, wakers, releasers,
                   messageChan, consumed, stress>>
    /\ LockOnly

\* a releaseChan goroutine sends its next Message on q.messageChan
Release ==
    /\ Len(messageChan) < QCap
    /\ \E b \in BagToSet(releasers) :
         /\ messageChan' = Append(messageChan, Head(b))
         /\ releasers' = releaseChan(BagDel(releasers, b), Tail(b))
    /\ UNCHANGED <<qMsgs, messages, running, wakeSignal, wakers, runners,
                   stoppers, consumed, stress>>
    /\ LockOnly

\* the clock of the lock-based queue
QTick ==
    /\ now < QMaxAt + 1
    /\ now' = now + 1
    /\ last' = NoCall
    /\ UNCHANGED <<pauseRest, lockQueue>>

LockInit ==
    /\ Init
    /\ cap = DefaultCapacity

LockNext ==
    \/ MainStart
    \/ MainPush
    \/ MainGo
    \/ MainRecv
    \/ MainSize
    \/ MainDeferredStop
    \/ CyclerStop
    \/ CyclerStart
    \/ WakeFire
    \/ WakerFire
    \/ WakerStop
    \/ RunWake
    \/ RunStaleWake
    \/ RunOnWake
    \/ RunStop
    \/ Release
    \/ QTick

\* every thread and goroutine keeps running and time passes
LockFair ==
    /\ WF_vars(MainStart)
    /\ WF_vars(MainPush)
    /\ WF_vars(MainGo)
    /\ WF_vars(MainRecv)
    /\ WF_vars(MainSize)
    /\ WF_vars(MainDeferredStop)
    /\ WF_vars(CyclerStop)
    /\ WF_vars(CyclerStart)
    /\ WF_vars(WakeFire)
    /\ WF_vars(WakerFire)
    /\ WF_vars(WakerStop)
    /\ WF_vars(RunWake)
    /\ WF_vars(RunStaleWake)
    /\ WF_vars(RunOnWake)
    /\ WF_vars(RunStop)
    /\ WF_vars(Release)
    /\ WF_vars(QTick)

LockSpec == LockInit /\ [][LockNext]_vars /\ LockFair

----------------------------------------------------------------------------
(* The lock-based TimeQueue under arbitrary calls of Start, Stop, Push,    *)
(* Pop, PopAll and PopAllUntil, with a consumer that may or may not        *)
(* receive from Messages().                                                *)

ApiMaxUntil == 3    \* PopAllUntil is called with until in 1..ApiMaxUntil
ApiMaxStoppers == 1 \* Stop() goroutines waiting to send when Stop is called

\* what a call of Pop, PopAll or PopAllUntil leaves alone
LockCall == UNCHANGED <<pauseRest, now, running, runners, stoppers,
                        messageChan, consumed, stress>>

\* the return of Pop, PopAll or PopAllUntil
Popped(op, until, release, result) ==
    [op |-> op, until |-> until, release |-> release, result |-> result]

\* TimeQueue.Pop(release)
QPop(release) ==
    LET r == qPopMessage(Q)
        a == afterHeapUpdate(wakeSignal, wakers, r.S, now)
    IN  /\ IF r.id = NoMsg
           THEN /\ UNCHANGED <<qMsgs, messages, releasers, wakeSignal, wakers>>
                /\ last' = Popped("Pop", 0, release, <<>>)
           ELSE /\ messages' = r.S.h
                /\ releasers' = IF release THEN BagAdd(releasers, <<r.id>>)
                                           ELSE releasers
                /\ wakeSignal' = a.wakeSignal
                /\ wakers' = a.wakers
                /\ last' = Popped("Pop", 0, release, <<r.id>>)
                /\ UNCHANGED qMsgs
        /\ LockCall

\* PopAll's loop: pop until popMessage returns nil
RECURSIVE popAll(_, _)
popAll(S, result) ==
    LET r == qPopMessage(S)
    IN  IF r.id = NoMsg
        THEN [S |-> S, result |-> result]
        ELSE popAll(r.S, Append(result, r.id))

\* TimeQueue.PopAll(release)
QPopAll(release) ==
    LET p == popAll(Q, <<>>)
        a == afterHeapUpdate(wakeSignal, wakers, p.S, now)
    IN  /\ release => ~releaseBlocks(p.result)
        /\ messages' = p.S.h
        /\ releasers' = IF release THEN releaseChan(releasers, p.result)
                                   ELSE releasers
        /\ wakeSignal' = a.wakeSignal
        /\ wakers' = a.wakers
        /\ last' = Popped("PopAll", 0, release, p.result)
        /\ UNCHANGED qMsgs
        /\ LockCall

\* TimeQueue.PopAllUntil(until, release)
QPopAllUntil(until, release) ==
    LET p == popUntil(Q, until, <<>>)
        a == afterHeapUpdate(wakeSignal, wakers, p.S, now)
    IN  /\ release => ~releaseBlocks(p.result)
        /\ messages' = p.S.h
        /\ releasers' = IF release THEN releaseChan(releasers, p.result)
                                   ELSE releasers
        /\ wakeSignal' = a.wakeSignal
        /\ wakers' = a.wakers
        /\ last' = Popped("PopAllUntil", until, release, p.result)
        /\ UNCHANGED qMsgs
        /\ LockCall

\* a call is made when fewer than QMaxWakers goroutines of killed
\* wakeSignals are alive
ApiCalm == BagCardinality(wakers) < QMaxWakers

ApiStart ==
    /\ ApiCalm
    /\ QStart
    /\ UNCHANGED stress
    /\ LockOnly

ApiStop ==
    /\ ApiCalm
    /\ stoppers < ApiMaxStoppers
    /\ QStop
    /\ UNCHANGED stress
    /\ LockOnly

ApiPush ==
    /\ ApiCalm
    /\ Len(qMsgs) < QMaxMsgs
    /\ \E at \in 1..QMaxAt : QPush(at)
    /\ UNCHANGED stress
    /\ LockOnly

ApiPop ==
    /\ ApiCalm
    /\ \E release \in BOOLEAN : QPop(release)

ApiPopAll ==
    /\ ApiCalm
    /\ \E release \in BOOLEAN : QPopAll(release)

ApiPopAllUntil ==
    /\ ApiCalm
    /\ \E until \in 1..ApiMaxUntil, release \in BOOLEAN :
           QPopAllUntil(until, release)

\* a receive from q.Messages()
ApiRecv ==
    /\ messageChan # <<>>
    /\ messageChan' = Tail(messageChan)
    /\ consumed' = Append(consumed, Head(messageChan))
    /\ UNCHANGED <<qMsgs, messages, running, wakeSignal, wakers, runners,
                   stoppers, releasers, stress>>
    /\ LockOnly

ApiNext ==
    \/ ApiStart
    \/ ApiStop
    \/ ApiPush
    \/ ApiPop
    \/ ApiPopAll
    \/ ApiPopAllUntil
    \/ ApiRecv
    \/ WakeFire
    \/ WakerFire
    \/ WakerStop
    \/ RunWake
    \/ RunStaleWake
    \/ RunOnWake
    \/ RunStop
    \/ Release
    \/ QTick

ApiSpec == LockInit /\ [][ApiNext]_vars

----------------------------------------------------------------------------
(* PopAllUntil on a lock-based TimeQueue that was never started, as in     *)
(* TestTimeQueue_PopAllUntil: Messages are pushed, PopAllUntil is called   *)
(* and the released Messages are received from Messages().                 *)

UntilMaxMsgs == 4   \* Messages pushed
UntilMaxAt == 3     \* their Times are 1..UntilMaxAt, until is 1..UntilMaxAt+1

UntilPush ==
    /\ Len(qMsgs) < UntilMaxMsgs
    /\ \E at \in 1..UntilMaxAt : QPush(at)
    /\ UNCHANGED stress
    /\ LockOnly

UntilPop ==
    \E until \in 1..UntilMaxAt + 1, release \in BOOLEAN :
        QPopAllUntil(until, release)

UntilNext ==
    \/ UntilPush
    \/ UntilPop
    \/ Release
    \/ ApiRecv

UntilSpec == LockInit /\ [][UntilNext]_vars

----------------------------------------------------------------------------
(* Properties *)

\* the call c is between pause() and the deferred unpause()
InCS(c) == cl[c].pc \in {"cs", "drain_loop", "drain_recv", "timer_wait"}

\* the call c has taken tq.lock and not yet released it
InCall(c) == cl[c].pc # "idle"

\* the run loop s is inside releaseNextMessage
Releasing(s) == rl[s].pc = "dispatch"

\* C1: at most one actor has the heap and the timer at any instant: while
\* a call is between pause() and unpause() every live run loop is blocked
\* in the pause of that very call (so none is inside releaseNextMessage
\* or can start it), and no two calls are in progress at once.
C1_ExclusiveOwner ==
    /\ \A c \in Clients : InCS(c) =>
          \A s \in Loops :
             /\ ~Releasing(s)
             /\ rl[s].pc \in {"dead", "paused"}
             /\ rl[s].pc = "paused" => rl[s].peer = c
    /\ \A s \in Loops : rl[s].pc = "paused" => InCS(rl[s].peer)
    /\ Cardinality({c \in Clients : InCall(c)}) <= 1

\* a call mutates a non-empty heap while the run loop is held in its pause
C1_Witness ==
    \E c \in Clients, s \in Loops :
        /\ cl[c].pc = "cs" /\ cl[c].op = "remove"
        /\ rl[s].pc = "paused" /\ rl[s].peer = c
        /\ Len(messageHeap) = 2
        /\ timer.c

\* C2: once stop() has returned true, and until the next start(), no run
\* loop pops the heap, re-arms the timer or sends to the sink.
C2_NoRunLoopAfterStop ==
    [][isStopped =>
         ~(\E s \in Loops : RLTimer(s) \/ RLDispatch(s) \/ RLHandoff(s))]_vars

\* stop() has just returned true with a fire signal waiting in timer.C and
\* a Message in the heap: nothing is left to take them
C2_Witness ==
    /\ last = [op |-> "stop", ret |-> TRUE]
    /\ isStopped
    /\ LiveLoops = {}
    /\ timer.c
    /\ messageHeap # <<>>

\* C9: start() returns true exactly when the queue was Stopped, stop()
\* returns true exactly when it was Running (so a second start() or stop()
\* in a row returns false), and a call that returns false changes nothing.
C9_StartStopIdempotent ==
    [][/\ last'.op = "start" => /\ last'.ret <=> isStopped
                                /\ ~isStopped'
       /\ last'.op = "stop" => /\ last'.ret <=> ~isStopped
                               /\ isStopped'
       /\ (last'.op \in {"start", "stop"} /\ ~last'.ret) =>
             UNCHANGED <<stopChan, rl, messageHeap, msgs, timer, out, lock,
                         cl, crashed>>]_vars

\* a start() refused while Messages wait in the heap
C9_Witness ==
    /\ last = [op |-> "start", ret |-> FALSE]
    /\ messageHeap # <<>>
    /\ received # <<>>

\* C10: exactly one run loop is alive whenever the queue is Running and
\* none whenever it is Stopped.
C10_OneRunLoop ==
    Cardinality(LiveLoops) = IF isStopped THEN 0 ELSE 1

\* the queue was stopped and started again: one run loop is alive
C10_Witness ==
    /\ last = [op |-> "start", ret |-> TRUE]
    /\ Cardinality(LiveLoops) = 1
    /\ messageHeap # <<>>

\* the Message id is in no heap
Detached(id) == msgs[id].mh = "nil" /\ msgs[id].index = indexNotInHeap

\* the handle h is a Message whose own fields say it is not in this heap:
\* never pushed, of another TimeQueue, or popped, removed or drained
NotMember(h) ==
    \/ h.kind \in {"fresh", "foreign"}
    \/ h.kind = "ptr" /\ Detached(h.id)

\* C5: when no delivered Message was consumed (and none removed), the
\* first Drain returns every Message pushed so far, those of the heap and
\* those of the sink buffer, each detached, and leaves heap and sink empty.
C5_DrainReturnsAll ==
    (/\ last.op = "drain"
     /\ received = <<>>
     /\ removedOk = {}
     /\ drained = last.ret)
    => /\ last.ret = DOMAIN msgs
       /\ Cardinality(last.ret) = Len(msgs)
       /\ \A id \in last.ret : Detached(id)
       /\ messageHeap = <<>>
       /\ out = <<>>

\* a Drain that took one Message from the heap and one from the sink
C5_Witness ==
    /\ last.op = "drain"
    /\ received = <<>> /\ removedOk = {}
    /\ Cardinality(last.ret) = 2
    /\ Cardinality(last.sink) = 1

Pending(id) ==
    \/ id \in Range(messageHeap)
    \/ id \in Range(out)
    \/ \E s \in Loops : rl[s].m = id

\* C8: with the value Push returned for e, once Remove has returned true
\* e is not pending, is not and will not be received or drained, and the
\* Remove took e and nothing else out of the heap (so a Remove of a
\* delivered or already removed e cannot return true).
C8_RemovedForGood ==
    /\ \A id \in removedOk :
          /\ ~Pending(id)
          /\ id \notin Range(received)
          /\ id \notin drained
    /\ (last.op = "remove" /\ last.ret) => last.took = last.arg.id

\* C4: after the final Stop and Drain every pushed Message is accounted
\* for exactly once: its Remove returned true, or it was received from
\* the sink, or a Drain returned it; and the process is still alive.
C4_AccountedOnce ==
    /\ ~crashed
    /\ (last.op = "drain" /\ isStopped) =>
          /\ removedOk \cup Range(received) \cup drained = DOMAIN msgs
          /\ removedOk \cap Range(received) = {}
          /\ removedOk \cap drained = {}
          /\ Range(received) \cap drained = {}

\* the sequence of Message ids is in non-decreasing order of release instant
SortedByAt(q) ==
    \A i, j \in DOMAIN q : i < j => msgs[q[i]].at <= msgs[q[j]].at

\* C3: Messages pushed before any of them is released, one by one while
\* stopped or as one PushAll batch, are all received, in non-decreasing
\* order of release instant: what was received is in order, and the queue
\* does not come to a halt before everything pushed has been received.
C3_AllDeliveredInOrder ==
    /\ SortedByAt(received)
    /\ Range(received) = DOMAIN msgs \/ ENABLED DeliveryNext

\* every slot of the heap is no earlier than its parent, and every Message
\* in the heap knows its slot
HeapOrdered(S) ==
    /\ \A i \in 1..(HLen(S) - 1) : ~Less(S, i, (i - 1) \div 2)
    /\ \A i \in 0..(HLen(S) - 1) :
          S.m[S.h[i + 1]].mh = "tq" /\ S.m[S.h[i + 1]].index = i

\* C7: remove(e) of a Message live in the heap, at the root, at an interior
\* slot or at the last slot, returns true and removes exactly e: e is
\* detached, the heap holds the Messages it held minus e, it is one shorter
\* and it is still in heap order.
C7_RemoveLive ==
    (last.op = "hremove" /\ last.live) =>
        /\ last.ret
        /\ Detached(last.id)
        /\ Range(messageHeap) = last.before \ {last.id}
        /\ Len(messageHeap) = last.n - 1
        /\ HeapOrdered(TQ)

\* a live Message was removed from an interior slot and the Message moved
\* into the gap from the last slot ended above it (it was sifted up)
C7_Witness ==
    /\ last.op = "hremove" /\ last.live /\ last.ret
    /\ 0 < last.index /\ last.index < last.n - 1
    /\ msgs[last.moved].mh = "tq"
    /\ msgs[last.moved].index < last.index

\* C11: after any sequence of pushMessage, popMessage, remove and drain,
\* every Message of the heap is at the slot its index names and has this
\* heap as its messageHeap, every Message popped, removed or drained has
\* index indexNotInHeap and no messageHeap, and the index of a Message is
\* indexNotInHeap exactly when it has no messageHeap.
C11_IndexedHeap ==
    /\ \A i \in 1..Len(messageHeap) :
          /\ msgs[messageHeap[i]].mh = "tq"
          /\ msgs[messageHeap[i]].index = i - 1
    /\ \A id \in DOMAIN msgs \ Range(messageHeap) : Detached(id)
    /\ \A id \in DOMAIN msgs :
          msgs[id].index = indexNotInHeap <=> msgs[id].mh = "nil"

\* a pop has just moved the Messages of a heap that still holds three, and
\* has detached another Message
C11_Witness ==
    /\ last.op = "hpop"
    /\ Len(messageHeap) = 3
    /\ Cardinality(Range(messageHeap)) = 3
    /\ Cardinality(DOMAIN msgs) >= 5

\* m comes before other in the order of (release instant, priority)
Earlier(m, other) ==
    \/ m.at < other.at
    \/ m.at = other.at /\ m.p < other.p

\* C12: successive popMessage results are non-decreasing in (release
\* instant, priority); stated for two pops in a row, the least the claim
\* says: the second result does not come before the first.
C12_PopsNonDecreasing ==
    [][(last.op = "hpop" /\ last'.op = "hpop") =>
          ~Earlier(msgs[last'.id], msgs[last.id])]_vars

\* C13: of two Messages with the same release instant the one with the
\* smaller priority value is delivered first, whatever the push order:
\* what the consumers received never has a Message ahead of one with
\* the same instant and a smaller priority when both were pushed before
\* either was released.
C13_SmallerPriorityFirst ==
    \A i, j \in DOMAIN received :
        (i < j /\ msgs[received[i]].at = msgs[received[j]].at)
            => msgs[received[i]].p <= msgs[received[j]].p

C18_PeekPopTotal ==
    /\ ~crashed
    /\ messageHeap = <<>> => peek(TQ) = NoMsg
    /\ messageHeap # <<>> => peek(TQ) = messageHeap[1]

\* C14: Push is never rejected while the queue is stopped: the call
\* returns with its Message in the heap; while the queue stays stopped no
\* Message leaves the heap and nothing is sent to the sink; and once the
\* queue runs again every Message of the heap is eventually received
\* (unless the queue is stopped again first).
C14_PushWhileStopped ==
    /\ [][(last'.op = "push" /\ isStopped) =>
             Len(msgs') \in Range(messageHeap')]_vars
    /\ [][(isStopped /\ isStopped') =>
             /\ Range(messageHeap) \subseteq Range(messageHeap')
             /\ Len(out') <= Len(out)
             /\ \A id \in DOMAIN msgs :
                   id \in Range(received') => id \in Range(received) \cup Range(out)]_vars
    /\ \A c \in Clients : (cl[c].op = "push") ~> (cl[c].pc = "idle")
    /\ \A id \in 1..MaxMsgs :
          (~isStopped /\ id \in Range(messageHeap))
             ~> (isStopped \/ id \in Range(received))

\* the queue runs again and the consumers have received the two Messages
\* that were pushed while it was stopped, the second pushed being the
\* earlier one
C14_Witness ==
    /\ ~isStopped
    /\ Len(msgs) = 2
    /\ msgs[2].at < msgs[1].at
    /\ received = <<2, 1>>

\* C15: while the queue runs and the consumers receive, a Message whose
\* release instant is at or before the current time is eventually
\* received, with no need for time to pass (so without waiting for a timer
\* set for a later Message).
C15_DueIsDelivered ==
    \A id \in 1..MaxMsgs :
        (id \in Range(messageHeap) /\ msgs[id].at <= now)
           ~> (id \in Range(received))

\* a Message that was due when pushed has been received while an earlier
\* pushed Message, due later, still waits in the heap for its instant
C15_Witness ==
    /\ Len(msgs) = 2
    /\ received = <<2>>
    /\ messageHeap = <<1>>
    /\ msgs[2].at <= now
    /\ msgs[1].at > now
    /\ timer.armed /\ timer.at = msgs[1].at

\* all the Messages pushed so far have one release instant, which is due
SameInstantDue ==
    /\ msgs # <<>>
    /\ \A id \in DOMAIN msgs : msgs[id].at = msgs[1].at /\ msgs[id].at <= now

\* C19: Messages pushed with the same, due release instant while the queue
\* runs are all received, each once and each by a pop and a send of its
\* own (a release takes one Message from the heap and the consumers get
\* one more Message at a time), and the heap is empty afterwards.
C19_SameInstantAllDelivered ==
    /\ [](Cardinality(Range(received)) = Len(received))
    /\ [](Range(received) \cap (Range(messageHeap) \cup Range(out)) = {})
    /\ [][/\ Len(messageHeap') >= Len(messageHeap) - 1
          /\ Len(received') <= Len(received) + 1]_vars
    /\ \A n \in 1..MaxMsgs :
          (Len(msgs) = n /\ SameInstantDue)
             ~> (\/ Len(msgs) > n
                 \/ Range(received) = DOMAIN msgs /\ messageHeap = <<>>)

\* two Messages of one due instant have both been received; the heap and
\* the sink are empty and the timer is idle
C19_Witness ==
    /\ Len(msgs) = 2 /\ SameInstantDue
    /\ Len(received) = 2
    /\ messageHeap = <<>> /\ out = <<>>
    /\ ~timer.armed /\ ~timer.c

\* the calls that wait for the run loop
Handshaking == {"push", "pushall", "remove", "drain", "stop"}

\* a call of c waits for the run loop, which is in the send to the sink
BlockedBehindSend(c) ==
    /\ \E s \in Loops : rl[s].pc = "dispatch"
    /\ cl[c].pc \in {"pause_send", "stop_send"}

\* C16: the run loop itself sends to the sink and blocks in that send:
\* while it is in the send no Push, PushAll, Remove, Drain or Stop call
\* returns; nothing enters the sink but by the run loop's send; and with
\* the consumers receiving the run loop gets out of the send and every
\* call that waited behind the send returns.
C16_BlockingSend ==
    /\ [][(\E s \in Loops : rl[s].pc = "dispatch")
             => last'.op \notin Handshaking]_vars
    /\ [][(Len(out') > Len(out) \/ (received' # received /\ out' = out))
             => \E s \in Loops : rl[s].pc = "dispatch" /\ rl'[s].pc = "check"]_vars
    /\ \A s \in Loops : (rl[s].pc = "dispatch") ~> (rl[s].pc # "dispatch")
    /\ \A c \in Clients : BlockedBehindSend(c) ~> (cl[c].pc = "idle")

\* the ids of the Messages that releaseChan goroutines have yet to send
InRelease == UNION {Range(b) : b \in BagToSet(releasers)}

\* every Message pushed into the lock-based queue is in the heap, with a
\* releaseChan goroutine, in q.messageChan or received, and in one only
NoneLost ==
    /\ Range(messages) \cup InRelease \cup Range(messageChan) \cup Range(consumed)
         = DOMAIN qMsgs
    /\ Len(messages) + Len(messageChan) + Len(consumed)
         + BagCardinality(releasers) <= Len(qMsgs)
    /\ \A b \in BagToSet(releasers) : Len(b) = Cardinality(Range(b))

\* the run() goroutines that no pending Stop() will end
RunLoopsLeft == BagCardinality(runners) - stoppers

\* C20: under the start and stop stress of the lock-based TimeQueue every
\* pushed Message is in the heap, on its way to Messages() or received; a
\* running queue has a run() goroutine that no pending stop will end; all
\* QMaxMsgs Messages are eventually received, and the Size() read after the
\* last receive is 0.
C20_StressDeliversAll ==
    /\ [](NoneLost)
    /\ [](running => RunLoopsLeft >= 1)
    /\ <>(Len(consumed) = QMaxMsgs)
    /\ <>(stress.main = "done")
    /\ [](stress.main = "done" => stress.size = 0)

\* the stress is over: the cycling thread made its QMaxCycles rounds of
\* Stop() and Start(), all QMaxMsgs Messages were received and Size()
\* returned 0
C20_Witness ==
    /\ stress.main = "done"
    /\ stress.cycler = "done"
    /\ stress.size = 0
    /\ Len(consumed) = QMaxMsgs

\* C21: while the lock-based queue is stopped (Stop() has returned and no
\* Start() followed) no step takes a Message out of the heap.
C21_NoPopWhileStopped ==
    [][~running => Len(messages') >= Len(messages)]_vars

\* C22: at most one run() goroutine of the lock-based queue is alive.
C22_SingleRunGoroutine == BagCardinality(runners) <= 1

\* C23: no method of the lock-based queue and no onWake waits for a
\* receiver on Messages(): in every state, whatever q.messageChan holds and
\* however many releaseChan goroutines wait to send, Start, Stop, Push, Pop,
\* PopAll, PopAllUntil and a pending onWake can run to their return; and a
\* step that puts a Message into q.messageChan is a step of a releaseChan
\* goroutine, which leaves the heap, q.running, q.wakeSignal and the run()
\* goroutines alone.
C23_ReleaseNeverBlocks ==
    /\ [](/\ ENABLED QStart
          /\ ENABLED QStop
          /\ \A at \in 1..QMaxAt : ENABLED QPush(at)
          /\ \A release \in BOOLEAN :
               /\ ENABLED QPop(release)
               /\ ENABLED QPopAll(release)
               /\ \A until \in 1..ApiMaxUntil : ENABLED QPopAllUntil(until, release)
          /\ (\E r \in BagToSet(runners) : r.pc = "onWake") => ENABLED RunOnWake)
    /\ [][Len(messageChan') > Len(messageChan)
            => /\ releasers' # releasers
               /\ UNCHANGED <<messages, running, wakeSignal, runners>>]_vars

\* a releasing PopAll or PopAllUntil returned Messages while q.messageChan
\* was full: the goroutine it spawned waits to send them
C23_Witness ==
    /\ last.op \in {"PopAll", "PopAllUntil"}
    /\ last.release
    /\ last.result # <<>>
    /\ Len(messageChan) = QCap
    /\ BagIn(last.result, releasers)

\* the Messages of the heap whose Time is strictly before until
Due(until) == {id \in Range(messages) : qMsgs[id] < until}

\* C24: a call PopAllUntil(until, release) returns exactly the Messages of
\* the heap with Time strictly before until, each once and in non-decreasing
\* Time order; the heap keeps exactly the others, a Message with Time equal
\* to until among them; with release the returned sequence is handed to one
\* releaseChan goroutine, without it to none; and a goroutine sends its
\* sequence on Messages() from the front.
C24_PopAllUntil ==
    /\ [][last'.op = "PopAllUntil"
            => /\ Range(last'.result) = Due(last'.until)
               /\ Len(last'.result) = Cardinality(Due(last'.until))
               /\ \A i \in 1..Len(last'.result) - 1 :
                      qMsgs[last'.result[i]] <= qMsgs[last'.result[i + 1]]
               /\ Range(messages') = Range(messages) \ Due(last'.until)
               /\ Len(messages') = Len(messages) - Cardinality(Due(last'.until))
               /\ releasers' = IF last'.release /\ last'.result # <<>>
                               THEN BagAdd(releasers, last'.result)
                               ELSE releasers]_vars
    /\ [][Len(messageChan') > Len(messageChan)
            => \E b \in BagToSet(releasers) :
                   /\ messageChan' = Append(messageChan, Head(b))
                   /\ releasers' = IF Len(b) = 1
                                   THEN BagDel(releasers, b)
                                   ELSE BagAdd(BagDel(releasers, b), Tail(b))]_vars

\* a releasing PopAllUntil returned three Messages of two different Times
\* and left in the heap a Message whose Time is until
C24_Witness ==
    /\ last.op = "PopAllUntil"
    /\ last.release
    /\ Len(last.result) = 3
    /\ qMsgs[last.result[1]] < qMsgs[last.result[3]]
    /\ messages # <<>>
    /\ qMsgs[messages[1]] = last.until

\* no Message of the heap is earlier than m
EarliestLive(m) == \A id \in Range(messageHeap) : msgs[m].at <= msgs[id].at

\* C25: the Message at index 0 of the heap has the earliest release instant
\* of all Messages in the heap, and the Message the run loop pops on a timer
\* fire is one of the heap that no other Message of the heap precedes.
C25_HeadIsEarliest ==
    /\ [](messageHeap # <<>> => EarliestLive(messageHeap[1]))
    /\ [][\A s \in Loops :
            (rl[s].pc = "select" /\ rl'[s].pc = "dispatch")
               => /\ rl'[s].m \in Range(messageHeap)
                  /\ rl'[s].m \notin Range(messageHeap')
                  /\ EarliestLive(rl'[s].m)]_vars

\* the run loop popped the Message pushed second, which is earlier than the
\* Message pushed first and still in the heap
C25_Witness ==
    \E s \in Loops :
        /\ rl[s].pc = "dispatch"
        /\ rl[s].m = 2
        /\ messageHeap = <<1>>
        /\ msgs[2].at < msgs[1].at

\* C26: the step of a PushAll call that pushes its batch into an empty heap
\* ends the call: the call is back from PushAll with the lock released, no
\* run loop is left paused, and the timer is armed for the release instant
\* of the Message now at index 0.
C26_PushAllIntoEmptyArms ==
    [][\A c \in Clients :
         (/\ cl[c].op = "pushall"
          /\ cl[c].pc = "cs"
          /\ messageHeap = <<>>
          /\ messageHeap' # <<>>)
            => /\ cl'[c].pc = "idle"
               /\ lock' = NoClient
               /\ \A s \in Loops : rl'[s].pc # "paused"
               /\ timer'.armed
               /\ timer'.at = msgs'[messageHeap'[1]].at]_vars

\* the queue is Running, a run loop waits in its select and no call is
\* between pause() and unpause()
AtSelect ==
    /\ ~crashed
    /\ ~isStopped
    /\ \E s \in Loops : rl[s].pc = "select"
    /\ \A c \in Clients : ~InCS(c)

\* C27: with the queue Running, the run loop in its select and no call in
\* its critical section, the timer is armed or holds an unconsumed fire
\* exactly when the heap is non-empty, and then it was set for the release
\* instant of the Message at index 0; with an empty heap it is disarmed and
\* holds nothing.
C27_SingleTimer ==
    AtSelect =>
        /\ (timer.armed \/ timer.c) <=> (messageHeap # <<>>)
        /\ ~(timer.armed /\ timer.c)
        /\ messageHeap # <<>> => timer.at = msgs[messageHeap[1]].at

\* the run loop waits again after a Remove took the earlier of two
\* Messages: the timer is armed for the later one, which is now the head
C27_Witness ==
    /\ AtSelect
    /\ Len(messageHeap) = 1
    /\ \E id \in removedOk : msgs[id].at < msgs[messageHeap[1]].at
    /\ timer.armed
    /\ ~timer.c

\* C28: the run loop never handles a timer fire while the heap is empty:
\* every step in which a run loop receives from the timer's channel and goes
\* on to popMessage finds a Message in the heap
C28_FireFindsHead ==
    [][(\E s \in Loops : RLTimer(s)) => ~popPanics(TQ)]_vars

\* a run loop has popped a Message on a timer fire, after a Remove had taken
\* an earlier Message out of the heap
C28_Witness ==
    /\ ~crashed
    /\ \E s \in Loops :
          /\ rl[s].pc = "dispatch"
          /\ rl[s].m \notin removedOk
          /\ \E id \in removedOk : msgs[id].at <= msgs[rl[s].m].at

\* C29: no Message is sent to the sink before its release instant: the fire
\* a run loop consumes was set for the Message that is the head at that
\* moment, that Message's instant has been reached, it is the one popped,
\* and the Message a run loop sends is one whose instant has been reached
C29_NoEarlyRelease ==
    /\ [][\A s \in Loops : RLTimer(s) =>
             /\ messageHeap # <<>>
             /\ timer.at = msgs[messageHeap[1]].at
             /\ msgs[messageHeap[1]].at <= now
             /\ rl'[s].m = messageHeap[1]]_vars
    /\ [][\A s \in Loops :
             (rl[s].pc = "dispatch" /\ rl'[s].pc # "dispatch") =>
                 msgs[rl[s].m].at <= now]_vars

\* a run loop has popped, on a fire, a Message that was pushed after the
\* one still in the heap and became the head ahead of it; the instant of
\* the Message left behind has not been reached
C29_Witness ==
    /\ ~crashed
    /\ \E s \in Loops :
          /\ rl[s].pc = "dispatch"
          /\ Len(messageHeap) = 1
          /\ messageHeap[1] < rl[s].m
          /\ msgs[rl[s].m].at < msgs[messageHeap[1]].at
          /\ msgs[rl[s].m].at <= now
          /\ now < msgs[messageHeap[1]].at

\* C30: drain collects the sink's buffer without blocking: a Drain that
\* has found len(tq.out) > 0 and goes on to receive from tq.out always
\* finds a Message there, so it never waits for one to arrive
C30_DrainNeverWaits ==
    \A c \in Clients : cl[c].pc = "drain_recv" => Len(out) > 0

\* a stop() is blocked in its send tq.stopChan <- resultChan
StopPending == \E c \in Clients : cl[c].pc = "stop_send"

\* C31: a stop request is not starved by timer work: while stop() is
\* blocked offering its request, a run loop that has started a delivery
\* only finishes it, a run loop that has finished one does not go back to
\* its 3-way select but exits, the stop() that stops waiting has returned
\* true on a stopped queue, and with the consumers receiving every blocked
\* stop() returns
C31_StopNotStarved ==
    /\ [][\A s \in Loops :
             (StopPending /\ rl[s].pc = "dispatch") =>
                 rl'[s].pc \in {"dispatch", "check"}]_vars
    /\ [][\A s \in Loops :
             (StopPending /\ rl[s].pc = "check") =>
                 rl'[s].pc \in {"check", "dead"}]_vars
    /\ [][\A c \in Clients :
             (cl[c].pc = "stop_send" /\ cl'[c].pc # "stop_send") =>
                 /\ last' = [op |-> "stop", ret |-> TRUE]
                 /\ isStopped'
                 /\ \E s \in Loops : rl[s].pc # "dead" /\ rl'[s].pc = "dead"]_vars
    /\ \A c \in Clients : (cl[c].pc = "stop_send") ~> (cl[c].pc = "idle")

\* a stop() is blocked while the run loop has just finished a delivery and
\* the fire for the next Message is already in timer.C
C31_Witness ==
    /\ StopPending
    /\ \E s \in Loops : rl[s].pc = "check"
    /\ messageHeap # <<>>
    /\ timer.c
    /\ Len(out) + Len(received) > 0

\* C32: when start() returns true on a queue that was stopped, the timer
\* is set for the head: with a non-empty heap it is armed for, or holds a
\* fire for, the Time of the Message at index 0, and with an empty heap it
\* is not armed
C32_StartTimerForHead ==
    (last = [op |-> "start", ret |-> TRUE]) =>
        /\ messageHeap # <<>> =>
              /\ timer.armed \/ timer.c
              /\ timer.at = msgs[messageHeap[1]].at
        /\ messageHeap = <<>> => ~timer.armed

\* start() has just returned true with two Messages in the heap, the one
\* pushed last being the head, and the timer is armed for that head and
\* not for the later Message
C32_Witness ==
    /\ last = [op |-> "start", ret |-> TRUE]
    /\ Len(messageHeap) = 2
    /\ messageHeap[1] > messageHeap[2]
    /\ timer.armed
    /\ timer.at = msgs[messageHeap[1]].at
    /\ timer.at < msgs[messageHeap[2]].at

\* C33: while the queue is stopped pause and resume are no-ops: no run
\* loop is alive, a call of Push, PushAll, Remove or Drain never offers a
\* pause request, never waits for a fire of the timer that is not there
\* and never waits for a Message to arrive on the sink, every such call
\* returns, and a Drain returns every Message that was in the heap and
\* leaves the heap and the sink empty
C33_StoppedCallsDirect ==
    /\ [](isStopped => \A s \in Loops : rl[s].pc = "dead")
    /\ [](isStopped => \A c \in Clients :
             /\ cl[c].pc # "pause_send"
             /\ cl[c].pc = "timer_wait" => timer.c
             /\ cl[c].pc = "drain_recv" => Len(out) > 0)
    /\ [][(isStopped /\ last'.op = "drain") =>
             /\ Range(messageHeap) \subseteq last'.ret
             /\ messageHeap' = <<>>
             /\ out' = <<>>]_vars
    /\ \A c \in Clients : (isStopped /\ InCall(c)) ~> (cl[c].pc = "idle")

\* the step is one of the call c and it begins to touch the timer: the
\* timer is not after the step what it was before, or the call has come to
\* the receive from timer.C of stopTimer
TouchesTimer(c) ==
    /\ cl'[c] # cl[c]
    /\ cl[c].pc # "timer_wait"
    /\ timer' # timer \/ cl'[c].pc = "timer_wait"

\* the step puts a new Message at index 0 of the heap
NewHeadPushed ==
    /\ messageHeap' # <<>>
    /\ messageHeap'[1] \notin DOMAIN msgs

\* the step takes the Message at index 0 out of the heap
HeadRemoved ==
    /\ messageHeap # <<>>
    /\ messageHeap[1] \notin Range(messageHeap')

\* C34: a push that does not produce a new head and a remove of a Message
\* that is not the head leave the timer as it is: a call touches the timer
\* only in a push that puts a new Message at the head, in a successful
\* remove of the head, or in a drain that took Messages out of the heap
C34_TimerFrame ==
    [][\A c \in Clients : TouchesTimer(c) =>
          \/ cl[c].op \in {"push", "pushall"} /\ NewHeadPushed
          \/ cl[c].op = "remove" /\ HeadRemoved
          \/ cl[c].op = "drain" /\ cl[c].res \ cl[c].arg.sink # {}]_vars

\* a Remove has just taken out the later of two Messages, not the head,
\* and the timer is still armed for the head
C34_Witness ==
    /\ last.op = "remove"
    /\ last.ret
    /\ Len(messageHeap) = 1
    /\ msgs[last.took].at > msgs[messageHeap[1]].at
    /\ timer.armed
    /\ timer.at = msgs[messageHeap[1]].at

\* C35: every acknowledged pause is followed by a resume: whenever the
\* queue is running and no call holds tq.lock, no run loop waits in
\* <-resultChan for the end of a pause
C35_PauseResumed ==
    (~isStopped /\ lock = NoClient) =>
        \A s \in Loops : rl[s].pc # "paused"

\* a Remove that removed nothing has just returned on a running queue and
\* the run loop it had paused is at its second select
C35_Witness ==
    /\ ~isStopped
    /\ lock = NoClient
    /\ last.op = "remove"
    /\ ~last.ret
    /\ \E s \in Loops : rl[s].pc = "check"

\* nothing was pushed yet, the queue is running and every call so far is a
\* Start or a Stop
Untouched ==
    /\ msgs = <<>>
    /\ ~isStopped
    /\ \A c \in Clients : cl[c].op \in {"none", "stop"}

\* C36: the queue NewCapacity returns is running with exactly one run
\* loop, an empty heap and a timer that is neither armed nor holding a
\* fire; a Start on it returns false and changes nothing, and a Stop on it
\* returns true and ends its run loop
C36_NewQueueRunning ==
    /\ ~isStopped
    /\ Cardinality(LiveLoops) = 1
    /\ messageHeap = <<>>
    /\ ~timer.armed /\ ~timer.c
    /\ [][(Untouched /\ last'.op = "start") =>
             /\ ~last'.ret
             /\ UNCHANGED <<stopChan, rl, timer, messageHeap>>]_vars
    /\ [][(Untouched /\ last'.op = "stop") =>
             /\ last'.ret
             /\ isStopped'
             /\ LiveLoops' = {}]_vars

\* the first call on the new queue was a Start and it has returned false
C36_Witness ==
    /\ last = [op |-> "start", ret |-> FALSE]
    /\ Untouched
    /\ now = 0
    /\ timer = TimerIdle
    /\ Cardinality(LiveLoops) = 1

\* C37 as claimed: a queue made with capacity 0 behaves as one with
\* capacity 1: a run loop that is about to send the first released Message
\* to the empty sink can put it in the buffer with no consumer receiving
C37_ZeroActsAsOne ==
    \A s \in Loops :
        (cap = 0 /\ rl[s].pc = "dispatch" /\ out = <<>>) => ENABLED RLDispatch(s)

\* C37 as the code has it: the sink of a queue made with capacity 0 is
\* unbuffered: it never holds a Message, a run loop in its send cannot go
\* on by itself and leaves the send only in the step in which a consumer
\* receives the Message, and while it is in the send no call gets past
\* its pause or stop request
C37_ZeroIsUnbuffered ==
    /\ [](cap = 0 => out = <<>>)
    /\ [](cap = 0 => \A s \in Loops :
             rl[s].pc = "dispatch" => ~ENABLED RLDispatch(s))
    /\ [][cap = 0 => \A s \in Loops :
             (rl[s].pc = "dispatch" /\ rl'[s].pc # "dispatch") =>
                 received' = Append(received, rl[s].m)]_vars
    /\ [][cap = 0 => \A c \in Clients :
             ((\E s \in Loops : rl[s].pc = "dispatch")
                 /\ cl[c].pc \in {"pause_send", "stop_send"}) =>
                     cl'[c] = cl[c]]_vars

\* capacity 0, nothing received yet: the run loop is in the send of the
\* first released Message and a call waits behind it with its pause request
C37_Witness ==
    /\ cap = 0
    /\ received = <<>>
    /\ \E s \in Loops : rl[s].pc = "dispatch"
    /\ \E c \in Clients : cl[c].pc = "pause_send"

\* C38: each wakeSignal of the lock-based TimeQueue is killed at most
\* once and q.wakeSignal is nil whenever the last created signal has been
\* killed: the signal q.wakeSignal points to, the only one kill is ever
\* called on, has its stop channel open, so no kill closes a closed
\* channel; a signal whose stop channel is closed is no longer q.wakeSignal
\* and only its goroutine is left; and a step that kills a signal whose
\* goroutine is alive leaves q.wakeSignal nil or pointing to a new signal
C38_KilledOnce ==
    /\ [](~killPanics(wakeSignal))
    /\ [](\A w \in BagToSet(wakers) : w.stop = "closed")
    /\ [][BagCardinality(wakers') > BagCardinality(wakers) =>
             /\ wakeSignal'.pc \in {"nil", "select"}
             /\ wakeSignal'.stop = "open"
             /\ \A w \in BagToSet(wakers') :
                    CopiesIn(w, wakers') > CopiesIn(w, wakers) =>
                        w.pc \in {"select", "send"}]_vars

\* Stop has killed the signal set for the head: the queue is stopped with a
\* Message in the heap, q.wakeSignal is nil and the goroutine of the killed
\* signal is still alive
C38_Witness ==
    /\ ~running
    /\ messages # <<>>
    /\ wakeSignal = NoSignal
    /\ \E w \in BagToSet(wakers) : w.pc = "select" /\ w.stop = "closed"

====
